---- MODULE Spec2Model ----
(***************************************************************************)
(* Model of the spatial indexes of the 5G availability checker             *)
(* (src/indexes.py, src/utils.py): ResultsIndex and InputIndex, their      *)
(* load and query operations, and the threads that call them.              *)
(*                                                                         *)
(* Texts (CSV cells) are sequences of one-character strings, so that       *)
(* strip(), lower() and float() are computed and not assumed.  A float is  *)
(* a record [k, v]: k = "num" with v the value in units of 1e-4 degree (or *)
(* of the projected plane), k = "inf" with v the sign, or k = "nan".       *)
(***************************************************************************)
EXTENDS Integers, Sequences, FiniteSets, TLC

(***************************************************************************)
(* Bounds of the model.                                                    *)
(***************************************************************************)
\* rows of a source file in the single-caller scenario
MaxRows == 2
\* calls of load and calls of a query in one behaviour
MaxLoads == 2
MaxQueries == 1
\* largest k passed to a query
MaxK == 2

\* the caller threads
Threads == {1, 2}

(***************************************************************************)
(* Program constants.                                                      *)
(***************************************************************************)
\* config.LAT0 = -37.8136 and config.LON0 = 144.9631, in units of 1e-4 degree
LAT0 == -378136
LON0 == 1449631
\* utils._KM_PER_DEG_LON = 111.320 * cos(LAT0) = 87.9439 and
\* utils._KM_PER_DEG_LAT = 110.574, kept as the ratio 35 : 44 (0.79545 for
\* 0.79534): the plane's unit is 2.513e-4 km, which no ranking depends on.
KM_PER_DEG_LON == 35
KM_PER_DEG_LAT == 44
(***************************************************************************)
(* Texts.                                                                  *)
(***************************************************************************)
\* Python's None (a cell the row does not have): no text is this sequence,
\* every character of a text being a string of length one.
None == <<"None">>

Whitespace == {" ", "\t", "\n", "\r", "\f"}

Digits == <<"0", "1", "2", "3", "4", "5", "6", "7", "8", "9">>

IsDigit(c) == \E i \in 1..10 : Digits[i] = c

DigitVal(c) == (CHOOSE i \in 1..10 : Digits[i] = c) - 1

UpperCase == <<"A", "B", "C", "E", "F", "I", "N", "O", "R", "S", "T", "U", "Y">>
LowerCase == <<"a", "b", "c", "e", "f", "i", "n", "o", "r", "s", "t", "u", "y">>

\* str.lower() on one character
LowerChar(c) ==
    IF \E i \in 1..Len(UpperCase) : UpperCase[i] = c
    THEN LowerCase[CHOOSE i \in 1..Len(UpperCase) : UpperCase[i] = c]
    ELSE c

\* str.lower()
Lower(s) == [i \in 1..Len(s) |-> LowerChar(s[i])]

RECURSIVE LStrip(_)
LStrip(s) ==
    IF s # <<>> /\ Head(s) \in Whitespace THEN LStrip(Tail(s)) ELSE s

RECURSIVE RStrip(_)
RStrip(s) ==
    IF s # <<>> /\ s[Len(s)] \in Whitespace
    THEN RStrip(SubSeq(s, 1, Len(s) - 1))
    ELSE s

\* str.strip()
Strip(s) == RStrip(LStrip(s))

\* (v or "").strip()
OrEmptyStrip(v) == IF v = None THEN <<>> ELSE Strip(v)

(***************************************************************************)
(* Floats.                                                                 *)
(***************************************************************************)
Num(v) == [k |-> "num", v |-> v]
NaN == [k |-> "nan", v |-> 0]
Inf(sign) == [k |-> "inf", v |-> sign]

IsFinite(f) == f.k = "num"

RECURSIVE DigitsValue(_, _)
DigitsValue(s, acc) ==
    IF s = <<>> THEN acc ELSE DigitsValue(Tail(s), acc * 10 + DigitVal(Head(s)))

AllDigits(s) == \A i \in 1..Len(s) : IsDigit(s[i])

Pow10(n) == IF n = 0 THEN 1 ELSE IF n = 1 THEN 10 ELSE IF n = 2 THEN 100
            ELSE IF n = 3 THEN 1000 ELSE 10000

\* a fraction's digits as a number of units of 1e-4: its first four digits
FracValue(s) ==
    LET kept == IF Len(s) > 4 THEN SubSeq(s, 1, 4) ELSE s
    IN  DigitsValue(kept, 0) * Pow10(4 - Len(kept))

\* float(v): [ok |-> FALSE] where Python raises (TypeError for None,
\* ValueError for a text that is no number), else the value.  The texts of the
\* model use signs, digits, one point, and the words nan, inf and infinity.
FloatOf(v) ==
    IF v = None THEN [ok |-> FALSE, val |-> NaN]
    ELSE
    LET t == Strip(v)
        signed == t # <<>> /\ Head(t) \in {"+", "-"}
        sign == IF signed /\ Head(t) = "-" THEN -1 ELSE 1
        body == IF signed THEN Tail(t) ELSE t
        word == Lower(body)
        dots == {i \in 1..Len(body) : body[i] = "."}
        dot == IF dots = {} THEN Len(body) + 1 ELSE CHOOSE i \in dots : TRUE
        whole == SubSeq(body, 1, dot - 1)
        frac == SubSeq(body, dot + 1, Len(body))
    IN  IF word = <<"n", "a", "n">> THEN [ok |-> TRUE, val |-> NaN]
        ELSE IF word = <<"i", "n", "f">>
                \/ word = <<"i", "n", "f", "i", "n", "i", "t", "y">>
        THEN [ok |-> TRUE, val |-> Inf(sign)]
        ELSE IF /\ Cardinality(dots) <= 1
                /\ AllDigits(whole) /\ AllDigits(frac)
                /\ Len(whole) + Len(frac) > 0
        THEN [ok |-> TRUE,
              val |-> Num(sign * (DigitsValue(whole, 0) * Pow10(4)
                                  + FracValue(frac)))]
        ELSE [ok |-> FALSE, val |-> NaN]

\* a - b, a * c for a number c > 0, a ** 2 and a + b on floats
FSub(a, b) ==
    IF a.k = "nan" \/ b.k = "nan" THEN NaN
    ELSE IF a.k = "inf" /\ b.k = "inf"
         THEN IF a.v = b.v THEN NaN ELSE a
    ELSE IF a.k = "inf" THEN a
    ELSE IF b.k = "inf" THEN Inf(0 - b.v)
    ELSE Num(a.v - b.v)

FScale(a, c) == IF a.k = "num" THEN Num(a.v * c) ELSE a

FSquare(a) ==
    IF a.k = "nan" THEN NaN ELSE IF a.k = "inf" THEN Inf(1) ELSE Num(a.v * a.v)

FAdd(a, b) ==
    IF a.k = "nan" \/ b.k = "nan" THEN NaN
    ELSE IF a.k = "inf" /\ b.k = "inf"
         THEN IF a.v = b.v THEN a ELSE NaN
    ELSE IF a.k = "inf" THEN a
    ELSE IF b.k = "inf" THEN b
    ELSE Num(a.v + b.v)

\* a < b as numpy's sort orders floats: numbers and infinities by value, every
\* nan after them
FLess(a, b) ==
    IF a.k = "nan" THEN FALSE
    ELSE IF b.k = "nan" THEN TRUE
    ELSE IF a.k = "inf" THEN a.v < 0 /\ ~(b.k = "inf" /\ b.v < 0)
    ELSE IF b.k = "inf" THEN b.v > 0
    ELSE a.v < b.v

(***************************************************************************)
(* src/utils.py                                                            *)
(***************************************************************************)
\* a faulty variant of to_x_km: the longitudes are taken from the latitude
\* anchor
to_x_km_misanchored(lon) ==
    [i \in 1..Len(lon) |-> FScale(FSub(lon[i], Num(LAT0)), KM_PER_DEG_LON)]

\* to_xy_km(lat, lon)[0] and [1]: each an elementwise map of one array
to_x_km(lon) == [i \in 1..Len(lon) |-> FScale(FSub(lon[i], Num(LON0)), KM_PER_DEG_LON)]

to_y_km(lat) == [i \in 1..Len(lat) |-> FScale(FSub(lat[i], Num(LAT0)), KM_PER_DEG_LAT)]

\* haversine_km(lat1, lon1, lat2, lon2).  math.sin raises ValueError on an
\* infinity; a nan goes through to the result.  For numbers the value kept is
\* the squared small-angle distance (100 dlat)^2 + (79 dlon)^2, (79/100)^2
\* being cos(lat1) cos(lat2) to 1e-4 around the anchor: the kilometre value
\* 2 R asin(sqrt(a)) is an increasing function of it.
haversine_km(lat1, lon1, lat2, lon2) ==
    LET dlat == FSub(lat2, lat1)
        dlon == FSub(lon2, lon1)
    IN  IF dlat.k = "inf" \/ dlon.k = "inf" \/ lat1.k = "inf" \/ lat2.k = "inf"
        THEN [ok |-> FALSE, val |-> NaN]
        ELSE [ok |-> TRUE,
              val |-> FAdd(FSquare(FScale(dlat, 100)), FSquare(FScale(dlon, 79)))]

(***************************************************************************)
(* src/indexes.py: reading a source.                                       *)
(***************************************************************************)
\* ResultsIndex._parse_bool
\* a faulty variant of parse_bool: the text is compared without lower()
parse_bool_cased(v) ==
    IF v = None THEN FALSE
    ELSE Strip(v) \in {<<"t", "r", "u", "e">>, <<"1">>, <<"y", "e", "s">>, <<"y">>, <<"t">>}

parse_bool(v) ==
    IF v = None THEN FALSE
    ELSE Lower(Strip(v)) \in {<<"t", "r", "u", "e">>, <<"1">>, <<"y", "e", "s">>,
                              <<"y">>, <<"t">>}

NoColumns ==
    [addr |-> <<>>, lat |-> <<>>, lon |-> <<>>, elig |-> <<>>,
     status |-> <<>>, latency |-> <<>>, checked_at |-> <<>>]

\* one turn of load's loop over the rows: the row is skipped (continue) or
\* appended to every list of the index kind
AcceptRow(kind, cols, row) ==
    LET a == OrEmptyStrip(row.address)
        la == FloatOf(row.lat)
        lo == FloatOf(row.lon)
    IN  IF a = <<>> THEN cols
        ELSE IF ~la.ok \/ ~lo.ok THEN cols
        ELSE IF kind = "results"
        THEN [addr |-> Append(cols.addr, a),
              lat |-> Append(cols.lat, la.val),
              lon |-> Append(cols.lon, lo.val),
              elig |-> Append(cols.elig, parse_bool(row.eligible)),
              status |-> Append(cols.status, OrEmptyStrip(row.status_text)),
              latency |-> Append(cols.latency, OrEmptyStrip(row.latency_sec)),
              checked_at |-> Append(cols.checked_at, OrEmptyStrip(row.checked_at))]
        ELSE [cols EXCEPT !.addr = Append(cols.addr, a),
                          !.lat = Append(cols.lat, la.val),
                          !.lon = Append(cols.lon, lo.val)]

\* the lists load builds from the rows of an existing file
RECURSIVE ReadRows(_, _, _)
ReadRows(kind, rows, cols) ==
    IF rows = <<>> THEN cols
    ELSE ReadRows(kind, Tail(rows), AcceptRow(kind, cols, Head(rows)))

(***************************************************************************)
(* src/indexes.py: the computation of a query.                             *)
(***************************************************************************)
\* numpy's a + b on two one-dimensional arrays: elementwise, an array of one
\* element being stretched, ValueError (ok = FALSE) for other unequal lengths
Broadcast(a, b) ==
    IF Len(a) = Len(b)
    THEN [ok |-> TRUE, val |-> [i \in 1..Len(a) |-> FAdd(a[i], b[i])]]
    ELSE IF Len(a) = 1
    THEN [ok |-> TRUE, val |-> [i \in 1..Len(b) |-> FAdd(a[1], b[i])]]
    ELSE IF Len(b) = 1
    THEN [ok |-> TRUE, val |-> [i \in 1..Len(a) |-> FAdd(a[i], b[1])]]
    ELSE [ok |-> FALSE, val |-> <<>>]

\* (x - tx[0]) ** 2 and (y - ty[0]) ** 2 for the target (lat, lon)
SquaredDx(x, lon) ==
    LET tx == to_x_km(<<Num(lon)>>)
    IN  [i \in 1..Len(x) |-> FSquare(FSub(x[i], tx[1]))]

SquaredDy(y, lat) ==
    LET ty == to_y_km(<<Num(lat)>>)
    IN  [i \in 1..Len(y) |-> FSquare(FSub(y[i], ty[1]))]

\* np.where(elig)[0]: the positions of the true flags
\* a faulty variant of Where: the filter on the eligibility flags is left out
\* and every row is a candidate
WhereUnfiltered(elig) == 1..Len(elig)

Where(elig) == {i \in 1..Len(elig) : elig[i]}

\* how many positions argpartition(sub, k - 1)[:k] keeps of size candidates:
\* k of them, or size + k for a negative k; ValueError (ok = FALSE) when
\* k - 1 is no position of sub
Taken(k, size) ==
    IF k - 1 >= size \/ k - 1 < 0 - size THEN [ok |-> FALSE, n |-> 0]
    ELSE [ok |-> TRUE, n |-> IF k >= 0 THEN k ELSE size + k]

\* a faulty variant of Selections: n candidates are taken whatever their
\* distance, and then put in order
SelectionsUnpartitioned(d2, cand, n) ==
    {c \in [1..n -> cand] :
        /\ \A i, j \in 1..n : i # j => c[i] # c[j]
        /\ \A i \in 1..n : \A j \in 1..n : i < j => ~FLess(d2[c[j]], d2[c[i]])}

\* sub[part[np.argsort(sub[part])]] for part = np.argpartition(sub, n - 1)[:n]:
\* every order of n of the candidates that is ascending in d2 and leaves out
\* no candidate smaller than one it holds; numpy fixes no order among equals
Selections(d2, cand, n) ==
    {c \in [1..n -> cand] :
        /\ \A i, j \in 1..n : i # j => c[i] # c[j]
        /\ \A i \in 1..n : \A j \in 1..n : i < j => ~FLess(d2[c[j]], d2[c[i]])
        /\ \A e \in cand : (\A i \in 1..n : c[i] # e)
                              => \A i \in 1..n : ~FLess(d2[e], d2[c[i]])}

\* a faulty variant of InitProgram: __init__ forgets to clear the ready flag
InitProgramKeepsReady(kind) ==
    IF kind = "results"
    THEN <<"lock", "addr", "lat", "lon", "x", "y", "elig", "status", "latency",
           "checked_at">>
    ELSE <<"lock", "addr", "lat", "lon", "x", "y">>

\* a faulty variant of PublishProgram: a ResultsIndex load forgets to publish
\* the status column
PublishProgramNoStatus(kind) ==
    IF kind = "results"
    THEN <<"addr", "lat", "lon", "rd_lat", "rd_lon", "x", "y", "elig", "latency",
           "checked_at", "ready">>
    ELSE <<"addr", "lat", "lon", "rd_lat", "rd_lon", "x", "y", "ready">>

\* the programs of the two classes: the attributes __init__ binds, the
\* statements of load's publishing block, the reads that build one result
InitProgram(kind) ==
    IF kind = "results"
    THEN <<"lock", "ready", "addr", "lat", "lon", "x", "y", "elig", "status",
           "latency", "checked_at">>
    ELSE <<"lock", "ready", "addr", "lat", "lon", "x", "y">>

PublishProgram(kind) ==
    IF kind = "results"
    THEN <<"addr", "lat", "lon", "rd_lat", "rd_lon", "x", "y", "elig", "status",
           "latency", "checked_at", "ready">>
    ELSE <<"addr", "lat", "lon", "rd_lat", "rd_lon", "x", "y", "ready">>

RowProgram(kind) ==
    IF kind = "results"
    THEN <<"addr", "lat", "lon", "status", "latency", "checked_at", "lat2", "lon2">>
    ELSE <<"addr", "lat", "lon">>

\* the index object after __init__, with the lock it is given
NewIndex(lock) ==
    [lock |-> lock, ready |-> FALSE, addr |-> <<>>, lat |-> <<>>, lon |-> <<>>,
     x |-> <<>>, y |-> <<>>, elig |-> <<>>, status |-> <<>>, latency |-> <<>>,
     checked_at |-> <<>>]

\* the attributes a load of the lists cols publishes
PublishedIndex(cols) ==
    [lock |-> 0, ready |-> TRUE, addr |-> cols.addr, lat |-> cols.lat,
     lon |-> cols.lon, x |-> to_x_km(cols.lon), y |-> to_y_km(cols.lat),
     elig |-> cols.elig, status |-> cols.status, latency |-> cols.latency,
     checked_at |-> cols.checked_at]

\* the dict nearest_eligible appends for row i, the MapPoint of nearest
ResultRecord(kind, s, lat, lon, i) ==
    IF kind = "results"
    THEN [addr |-> s.addr[i], lat |-> s.lat[i], lon |-> s.lon[i], eligible |-> TRUE,
          status_text |-> s.status[i], latency_sec |-> s.latency[i],
          checked_at |-> s.checked_at[i],
          distance_km |-> haversine_km(Num(lat), Num(lon), s.lat[i], s.lon[i]).val]
    ELSE [addr |-> s.addr[i], lat |-> s.lat[i], lon |-> s.lon[i]]

\* the exception building the result of row i raises, if any
RowError(kind, s, lat, lon, i) ==
    IF i > Len(s.addr) \/ i > Len(s.lat) \/ i > Len(s.lon) THEN "IndexError"
    ELSE IF kind = "results"
            /\ (i > Len(s.status) \/ i > Len(s.latency) \/ i > Len(s.checked_at))
    THEN "IndexError"
    ELSE IF kind = "results"
            /\ ~haversine_km(Num(lat), Num(lon), s.lat[i], s.lon[i]).ok
    THEN "ValueError"
    ELSE "none"

Outcome(err, out) == [err |-> err, out |-> out]

\* the loop over the chosen rows
RowsOutcome(kind, s, lat, lon, c) ==
    LET bad == {r \in 1..Len(c) : RowError(kind, s, lat, lon, c[r]) # "none"}
        first == CHOOSE r \in bad : \A q \in bad : r <= q
    IN  IF bad = {}
        THEN Outcome("none", [r \in 1..Len(c) |-> ResultRecord(kind, s, lat, lon, c[r])])
        ELSE Outcome(RowError(kind, s, lat, lon, c[first]), <<>>)

Min(a, b) == IF a <= b THEN a ELSE b

Max(a, b) == IF a >= b THEN a ELSE b

\* ResultsIndex.nearest_eligible(lat, lon, k) run on the attributes s with no
\* other thread in between: every outcome it can have
NearestEligible(s, lat, lon, k) ==
    IF ~s.ready \/ Len(s.addr) = 0 THEN {Outcome("none", <<>>)}
    ELSE
    LET d2 == Broadcast(SquaredDx(s.x, lon), SquaredDy(s.y, lat))
        idx == Where(s.elig)
        size == Cardinality(idx)
        t == Taken(Min(k, size), size)
    IN  IF ~d2.ok THEN {Outcome("ValueError", <<>>)}
        ELSE IF idx = {} THEN {Outcome("none", <<>>)}
        ELSE IF \E e \in idx : e > Len(d2.val) THEN {Outcome("IndexError", <<>>)}
        ELSE IF ~t.ok THEN {Outcome("ValueError", <<>>)}
        ELSE {RowsOutcome("results", s, lat, lon, c) : c \in Selections(d2.val, idx, t.n)}

\* InputIndex.nearest(lat, lon, k) likewise
Nearest(s, lat, lon, k) ==
    IF ~s.ready \/ Len(s.addr) = 0 THEN {Outcome("none", <<>>)}
    ELSE
    LET d2 == Broadcast(SquaredDx(s.x, lon), SquaredDy(s.y, lat))
        kk == Min(k, Len(d2.val))
    IN  IF ~d2.ok THEN {Outcome("ValueError", <<>>)}
        ELSE IF kk <= 0 THEN {Outcome("none", <<>>)}
        ELSE {RowsOutcome("input", s, lat, lon, c) :
                 c \in Selections(d2.val, 1..Len(d2.val), kk)}

QueryOutcomes(kind, s, lat, lon, k) ==
    IF kind = "results" THEN NearestEligible(s, lat, lon, k) ELSE Nearest(s, lat, lon, k)

(***************************************************************************)
(* The sources and the query arguments of the model.                       *)
(***************************************************************************)
Row(a, la, lo, e, st) ==
    [address |-> a, lat |-> la, lon |-> lo, eligible |-> e, status_text |-> st,
     latency_sec |-> <<"2">>, checked_at |-> None]

Lat81 == <<"-", "3", "7", ".", "8", "1">>
Lat80 == <<" ", "-", "3", "7", ".", "8", "0", "0">>
Lat82 == <<"-", "3", "7", ".", "8", "2">>
Lon96 == <<"1", "4", "4", ".", "9", "6">>
Lon95 == <<"1", "4", "4", ".", "9", "5">>
Lon97 == <<"+", "1", "4", "4", ".", "9", "7", " ">>

\* the three rows of the specification's scenario: A and C eligible, B not
RowA == Row(<<"A">>, Lat81, Lon96, <<"T", "r", "u", "e">>, <<"o", "k">>)
RowB == Row(<<"B">>, Lat80, Lon95, <<"f", "a", "l", "s", "e">>, <<"n", "o", " ">>)
RowC == Row(<<" ", "C", " ">>, Lat82, Lon97, <<" ", "Y", "E", "S">>, <<>>)
\* rows load skips: a blank address, a latitude that is no number, no longitude
RowBlank == Row(<<" ", "\t">>, Lat81, Lon96, <<"1">>, <<"o", "k">>)
RowBadLat == Row(<<"D">>, <<"3", "7", "S">>, Lon96, <<"1">>, <<"o", "k">>)
RowNoLon == Row(<<"E">>, Lat81, None, <<"1">>, <<"o", "k">>)
\* rows whose coordinates float() accepts although they are no finite number
RowNaN == Row(<<"F">>, <<"n", "a", "n">>, Lon96, <<"y">>, <<"o", "k">>)
RowInf == Row(<<"G">>, Lat81, <<"-", "I", "n", "f">>, <<"t">>, <<"o", "k">>)

\* a second, eligible address at the coordinates of row A
RowTwin == Row(<<"H">>, Lat81, Lon96, <<" ", "T", " ">>, <<"o", "k">>)

RowChoices ==
    {RowA, RowB, RowC, RowBlank, RowBadLat, RowNoLon, RowNaN, RowInf, RowTwin}

Source(exists, rows) == [exists |-> exists, rows |-> rows]

MissingSource == Source(FALSE, <<>>)

\* the sources of the scenario with concurrent callers: a missing file, a file
\* with no valid row, and two files with data
SmallSources ==
    {MissingSource, Source(TRUE, <<RowBadLat>>), Source(TRUE, <<RowA, RowB>>),
     Source(TRUE, <<RowC>>)}

\* the sources of the scenario with fair scheduling: a missing file, a file
\* with no valid row, and a file with data
FairSources == {MissingSource, Source(TRUE, <<RowBadLat>>), Source(TRUE, <<RowC>>)}

\* the sources of the single-caller scenario: every file of up to MaxRows rows
RichSources ==
    {MissingSource} \cup
    {Source(TRUE, rows) : rows \in UNION {[1..n -> RowChoices] : n \in 0..MaxRows}}

\* eligible fields that stand for true ...
TrueTexts ==
    {<<"T", "r", "u", "e">>, <<"1">>, <<"y", "e", "s">>, <<" ", "T", " ">>,
     <<"\t", "Y", "e", "S", "\n">>, <<"t">>, <<"Y">>, <<"t", "r", "u", "e", " ">>}

\* ... and for false, None being the field of a row that has no such column
FalseTexts ==
    {<<"f", "a", "l", "s", "e">>, <<>>, <<"n", "o">>, <<"m", "a", "y", "b", "e">>,
     None, <<" ">>, <<"0">>, <<"t", " ", "r", "u", "e">>, <<"y", "e", "s", "!">>,
     <<"t", "r", "u">>, <<"1", "1">>}

\* the sources of the scenario on eligibility: a missing file, a file with no
\* valid row, and the files of one valid row with each of these fields
ParseSources ==
    {MissingSource, Source(TRUE, <<RowBadLat>>)} \cup
    {Source(TRUE, <<Row(<<"P">>, Lat81, Lon96, e, <<"o", "k">>)>>) :
        e \in TrueTexts \cup FalseTexts}

\* query targets: the places of row A and of row B, in units of 1e-4 degree
TargetA == <<-378100, 1449600>>
TargetB == <<-378000, 1449500>>
\* (-37.82, 144.957): row A is the nearer in the projected plane (1.2923 km^2
\* against 1.3071 km^2 for row C), row C the nearer by haversine_km (1.14189 km
\* against 1.14275 km)
TargetSkew == <<-378200, 1449570>>

(***************************************************************************)
(* The state: one index object and the threads that call it.               *)
(***************************************************************************)
VARIABLES
    kind,        \* "results" (ResultsIndex) or "input" (InputIndex)
    scenario,    \* "threads": concurrent callers; "single": one caller;
                 \* "parse": one caller, sources that differ in the eligible field;
                 \* "objects": one caller, the column objects being followed;
                 \* "fair": concurrent callers under fair scheduling
    index,       \* the attributes of the object, index.lock naming its Lock
    held,        \* the Lock objects that are held
    pc,          \* where each thread is
    loc,         \* the local variables of each thread's call
    queries,     \* queries called
    reads,       \* loads called, each reading its source: the n-th has tag n
    returned,    \* the largest tag of a load that has returned
    overlapped,  \* two loads have been in progress at the same time
    accepted,    \* a load has been called whose source holds a valid row
    last,        \* what the load that returned last found: its branch
    prov,        \* for each attribute, the tag of the load whose data it holds
    heap,        \* the column objects: heap.ref[a] names the object attribute a
                 \* is bound to, heap.cell[o] is the contents of object o
    app,         \* the web application (src/app.py): results.csv and the request
                 \* handlers on the event loop, index being its results_index;
                 \* its registry of connections; its call of geocode_address
    tel,         \* the Telstra5GChecker (src/telstra5g.py): the clock, the result
                 \* cache, the browser sessions and the calls of check
    bulk         \* the bulk checker (src/bulk_checker.py): its files, its address
                 \* lists and its workers; or the task of the cloud bulk checker,
                 \* the rows given to _select_best_result, the call of
                 \* fetch_addresses_in_bbox

\* the threads that call the index, and what is recorded of their calls
callers == <<kind, scenario, held, pc, loc, queries, reads, returned, overlapped,
             accepted, last, prov, heap>>

vars == <<index, callers, app, tel, bulk>>

\* larger than every tag
Top == MaxLoads + 1

Attributes ==
    {"ready", "addr", "lat", "lon", "x", "y", "elig", "status", "latency", "checked_at"}

\* the list and array attributes
ColumnAttributes == Attributes \ {"ready"}

\* the objects of a newly constructed index: the object a call tagged n binds
\* to attribute a is named <<n, a>>, the constructor's tag being 0
NewHeap ==
    [ref |-> [a \in ColumnAttributes |-> <<0, a>>],
     cell |-> [o \in {<<0, a>> : a \in ColumnAttributes} |-> <<>>]]

\* the objects are followed in the scenario made for them
Tracked == scenario = "objects"

\* a faulty variant of Bind: the object the attribute is bound to is refilled
\* in place (self.<a>[:] = v)
BindInPlace(h, a, v, n) == [ref |-> h.ref, cell |-> [h.cell EXCEPT ![h.ref[a]] = v]]

\* self.<a> = <new list or array v>, in the call tagged n: the attribute is
\* bound to a new object, the object it was bound to is left as it is
Bind(h, a, v, n) ==
    [ref |-> [h.ref EXCEPT ![a] = <<n, a>>], cell |-> (<<n, a>> :> v) @@ h.cell]

NoRecord ==
    [addr |-> <<>>, lat |-> NaN, lon |-> NaN, eligible |-> TRUE, status_text |-> <<>>,
     latency_sec |-> <<>>, checked_at |-> <<>>, distance_km |-> NaN]

NoLocals ==
    [src |-> MissingSource, branch |-> "none", cols |-> NoColumns, lk |-> 0, tag |-> 0, ptag |-> Top,
     i |-> 0, j |-> 0, lat |-> 0, lon |-> 0, k |-> 0, rlat |-> <<>>, rlon |-> <<>>,
     dx |-> <<>>, d2 |-> <<>>, choose |-> <<>>, rec |-> NoRecord, hlat |-> NaN,
     out |-> <<>>, err |-> "none", floor |-> 0, low |-> Top, high |-> 0]

LoadPcs == {"l_lockref", "l_acquire", "l_init", "l_notready", "l_publish",
            "l_release", "l_done"}

QueryPcs == {"q_acquire", "q_ready", "q_len", "q_x", "q_y", "q_elig",
             "q_row", "q_release", "q_done"}

\* inside a with self._lock block
SectionPcs == {"l_init", "l_notready", "l_publish", "l_release",
               "q_ready", "q_len", "q_x", "q_y", "q_elig", "q_row", "q_release"}

\* the threads being alike, the first call of a behaviour is thread 1's
Active(t) == t = 1 \/ (scenario \in {"threads", "fair"} /\ reads + queries > 0)

Sources ==
    IF scenario = "single" /\ reads = 0 THEN RichSources
    ELSE IF scenario = "fair" THEN FairSources
    ELSE IF scenario = "parse" THEN ParseSources
    ELSE SmallSources

Targets == IF scenario = "single" THEN {TargetA, TargetB, TargetSkew} ELSE {TargetA}

Ks == IF scenario = "single" THEN -1..MaxK ELSE {MaxK}

InitFor(sc) ==
    /\ kind \in {"results", "input"}
    /\ scenario = sc
    /\ index = NewIndex(0)
    /\ held = {}
    /\ pc = [t \in Threads |-> "idle"]
    /\ loc = [t \in Threads |-> NoLocals]
    /\ queries = 0
    /\ reads = 0
    /\ returned = 0
    /\ overlapped = FALSE
    /\ accepted = FALSE
    /\ last = "none"
    /\ prov = [a \in Attributes |-> 0]
    /\ heap = NewHeap
    /\ app = <<>>
    /\ tel = <<>>
    /\ bulk = <<>>

Init == InitFor("threads")

InitSingle == InitFor("single")

InitParse == InitFor("parse")

InitObjects == InitFor("objects")

InitFair == InitFor("fair")

\* load(path), up to the with statement: the path is missing, or its rows are
\* read into the lists
LoadBranch(src, cols) ==
    IF ~src.exists THEN "missing" ELSE IF cols.addr = <<>> THEN "empty" ELSE "data"

LoadCall(t, src) ==
    /\ pc[t] = "idle" /\ Active(t) /\ reads < MaxLoads
    /\ LET cols == IF src.exists THEN ReadRows(kind, src.rows, NoColumns) ELSE NoColumns
       IN  /\ loc' = [loc EXCEPT ![t] = [NoLocals EXCEPT !.src = src,
                                                           !.branch = LoadBranch(src, cols),
                                                           !.cols = cols,
                                                           !.tag = reads + 1]]
           /\ accepted' = (accepted \/ LoadBranch(src, cols) = "data")
    /\ pc' = [pc EXCEPT ![t] = "l_lockref"]
    /\ reads' = reads + 1
    /\ overlapped' = (overlapped \/ \E u \in Threads \ {t} : pc[u] \in LoadPcs)
    /\ UNCHANGED <<app, tel, bulk, heap, kind, scenario, last, index, held, queries, returned, prov>>

\* nearest_eligible(lat, lon, k) or nearest(lat, lon, k) is called, and reads
\* self._lock for its with statement
QueryCall(t, lat, lon, k) ==
    /\ pc[t] = "idle" /\ Active(t) /\ queries < MaxQueries
    /\ loc' = [loc EXCEPT ![t] = [NoLocals EXCEPT !.lat = lat, !.lon = lon, !.k = k,
                                                   !.lk = index.lock,
                                                   !.floor = returned]]
    /\ pc' = [pc EXCEPT ![t] = "q_acquire"]
    /\ queries' = queries + 1
    /\ UNCHANGED <<app, tel, bulk, heap, kind, scenario, accepted, last, index, held, reads, returned, overlapped, prov>>

\* load's with self._lock: the attribute is read ...
LockRef(t) ==
    /\ pc[t] = "l_lockref"
    /\ loc' = [loc EXCEPT ![t].lk = index.lock]
    /\ pc' = [pc EXCEPT ![t] = "l_acquire"]
    /\ UNCHANGED <<app, tel, bulk, heap, kind, scenario, accepted, last, index, held, queries, reads, returned, overlapped,
                   prov>>

\* a faulty variant of LoadSection: a missing path leaves the index as it is
LoadSectionNoReset(branch) ==
    IF branch = "missing" THEN "l_release"
    ELSE IF branch = "data" THEN "l_publish"
    ELSE IF kind = "results" THEN "l_notready" ELSE "l_init"

\* the block of load that a branch runs under the lock
LoadSection(branch) ==
    IF branch = "missing" THEN "l_init"
    ELSE IF branch = "data" THEN "l_publish"
    ELSE IF kind = "results" THEN "l_notready" ELSE "l_init"

\* ... and that Lock object is acquired, once it is free
Acquire(t) ==
    /\ pc[t] \in {"l_acquire", "q_acquire"}
    /\ loc[t].lk \notin held
    /\ held' = held \cup {loc[t].lk}
    /\ pc' = [pc EXCEPT ![t] = IF pc[t] = "l_acquire" THEN LoadSection(loc[t].branch)
                                ELSE "q_ready"]
    /\ loc' = [loc EXCEPT ![t].i = 1]
    /\ UNCHANGED <<app, tel, bulk, heap, kind, scenario, accepted, last, index, queries, reads, returned, overlapped, prov>>

\* self.__init__() inside load: one assignment of __init__, the first of which
\* binds a new Lock
InitValue(f) ==
    IF f = "lock" THEN index.lock + 1 ELSE IF f = "ready" THEN FALSE ELSE <<>>

InitStep(t) ==
    /\ pc[t] = "l_init"
    /\ LET prog == InitProgram(kind)
           f == prog[loc[t].i]
       IN  /\ index' = [index EXCEPT ![f] = InitValue(f)]
           /\ prov' = IF f = "lock" THEN prov ELSE [prov EXCEPT ![f] = loc[t].tag]
           /\ heap' = IF Tracked /\ f \in ColumnAttributes
                      THEN Bind(heap, f, InitValue(f), loc[t].tag) ELSE heap
           /\ IF loc[t].i = Len(prog)
              THEN /\ pc' = [pc EXCEPT ![t] = "l_release"]
                   /\ loc' = loc
              ELSE /\ pc' = pc
                   /\ loc' = [loc EXCEPT ![t].i = @ + 1]
    /\ UNCHANGED <<app, tel, bulk, kind, scenario, accepted, last, held, queries, reads, returned, overlapped>>

\* a faulty variant of NotReady: the flag is left as the previous load set it
NotReadyKeepsFlag(t) ==
    /\ pc[t] = "l_notready"
    /\ pc' = [pc EXCEPT ![t] = "l_release"]
    /\ UNCHANGED <<app, tel, bulk, heap, kind, scenario, accepted, last, index, prov, held, loc, queries, reads,
                   returned, overlapped>>

\* ResultsIndex.load with no valid row: self.ready = False; return
NotReady(t) ==
    /\ pc[t] = "l_notready"
    /\ index' = [index EXCEPT !.ready = FALSE]
    /\ prov' = [prov EXCEPT !.ready = loc[t].tag]
    /\ pc' = [pc EXCEPT ![t] = "l_release"]
    /\ UNCHANGED <<app, tel, bulk, heap, kind, scenario, accepted, last, held, loc, queries, reads, returned, overlapped>>

\* one statement of load's publishing block.  self.x, self.y =
\* to_xy_km(self.lat, self.lon) reads the two attributes back and binds x, then y
PublishStep(t) ==
    /\ pc[t] = "l_publish"
    /\ LET prog == PublishProgram(kind)
           f == prog[loc[t].i]
           cols == loc[t].cols
           tag == loc[t].tag
           l1 == IF f = "rd_lat"
                 THEN [loc[t] EXCEPT !.rlat = index.lat, !.ptag = Min(@, prov.lat)]
                 ELSE IF f = "rd_lon"
                 THEN [loc[t] EXCEPT !.rlon = index.lon, !.ptag = Min(@, prov.lon)]
                 ELSE loc[t]
       IN  /\ index' =
                 IF f = "ready" THEN [index EXCEPT !.ready = TRUE]
                 ELSE IF f = "x" THEN [index EXCEPT !.x = to_x_km(loc[t].rlon)]
                 ELSE IF f = "y" THEN [index EXCEPT !.y = to_y_km(loc[t].rlat)]
                 ELSE IF f \in {"rd_lat", "rd_lon"} THEN index
                 ELSE [index EXCEPT ![f] = cols[f]]
           /\ prov' =
                 IF f \in {"x", "y"} THEN [prov EXCEPT ![f] = Min(tag, loc[t].ptag)]
                 ELSE IF f \in {"rd_lat", "rd_lon"} THEN prov
                 ELSE [prov EXCEPT ![f] = tag]
           /\ heap' = IF Tracked /\ f \in ColumnAttributes
                      THEN Bind(heap, f, index'[f], tag) ELSE heap
           /\ IF loc[t].i = Len(prog)
              THEN /\ pc' = [pc EXCEPT ![t] = "l_release"]
                   /\ loc' = [loc EXCEPT ![t] = l1]
              ELSE /\ pc' = pc
                   /\ loc' = [loc EXCEPT ![t] = [l1 EXCEPT !.i = @ + 1]]
    /\ UNCHANGED <<app, tel, bulk, kind, scenario, accepted, last, held, queries, reads, returned, overlapped>>

\* a faulty variant of Release: the Lock object released is the one the
\* attribute names when the block ends, not the one that was acquired
ReleaseNamed(t) ==
    /\ pc[t] \in {"l_release", "q_release"}
    /\ held' = held \ {index.lock}
    /\ pc' = [pc EXCEPT ![t] = IF pc[t] = "l_release" THEN "l_done" ELSE "q_done"]
    /\ UNCHANGED <<app, tel, bulk, heap, kind, scenario, accepted, last, index, loc, queries, reads, returned, overlapped, prov>>

\* the end of the with block, also when the block raised: the Lock object that
\* was acquired is released
Release(t) ==
    /\ pc[t] \in {"l_release", "q_release"}
    /\ held' = held \ {loc[t].lk}
    /\ pc' = [pc EXCEPT ![t] = IF pc[t] = "l_release" THEN "l_done" ELSE "q_done"]
    /\ UNCHANGED <<app, tel, bulk, heap, kind, scenario, accepted, last, index, loc, queries, reads, returned, overlapped, prov>>

\* the call returns (or raises) to its caller
Return(t) ==
    /\ pc[t] \in {"l_done", "q_done"}
    /\ returned' = IF pc[t] = "l_done" /\ loc[t].tag > returned THEN loc[t].tag
                   ELSE returned
    /\ last' = IF pc[t] = "l_done" THEN loc[t].branch ELSE last
    /\ pc' = [pc EXCEPT ![t] = "idle"]
    /\ loc' = [loc EXCEPT ![t] = NoLocals]
    /\ UNCHANGED <<app, tel, bulk, heap, kind, scenario, accepted, index, held, queries, reads, overlapped, prov>>

\* the query leaves its with block: with a result, or with an exception
Leave(l, err, out) == [l EXCEPT !.err = err, !.out = out]

\* a faulty variant of QueryReady: the flag is read and not tested
QueryReadySkipped(t) ==
    /\ pc[t] = "q_ready"
    /\ loc' = [loc EXCEPT ![t].low = Min(@, prov.ready), ![t].high = Max(@, prov.ready)]
    /\ pc' = [pc EXCEPT ![t] = "q_len"]
    /\ UNCHANGED <<app, tel, bulk, heap, kind, scenario, accepted, last, index, held, queries, reads, returned, overlapped,
                   prov>>

\* if not self.ready ...
QueryReady(t) ==
    /\ pc[t] = "q_ready"
    /\ LET l == [loc[t] EXCEPT !.low = Min(@, prov.ready), !.high = Max(@, prov.ready)]
       IN  IF index.ready
           THEN /\ loc' = [loc EXCEPT ![t] = l]
                /\ pc' = [pc EXCEPT ![t] = "q_len"]
           ELSE /\ loc' = [loc EXCEPT ![t] = Leave(l, "none", <<>>)]
                /\ pc' = [pc EXCEPT ![t] = "q_release"]
    /\ UNCHANGED <<app, tel, bulk, heap, kind, scenario, accepted, last, index, held, queries, reads, returned, overlapped,
                   prov>>

\* ... or len(self.addr) == 0: return []
QueryLen(t) ==
    /\ pc[t] = "q_len"
    /\ LET l == [loc[t] EXCEPT !.low = Min(@, prov.addr), !.high = Max(@, prov.addr)]
       IN  IF Len(index.addr) # 0
           THEN /\ loc' = [loc EXCEPT ![t] = l]
                /\ pc' = [pc EXCEPT ![t] = "q_x"]
           ELSE /\ loc' = [loc EXCEPT ![t] = Leave(l, "none", <<>>)]
                /\ pc' = [pc EXCEPT ![t] = "q_release"]
    /\ UNCHANGED <<app, tel, bulk, heap, kind, scenario, accepted, last, index, held, queries, reads, returned, overlapped,
                   prov>>

\* d2 = (self.x - tx[0]) ** 2 + (self.y - ty[0]) ** 2: self.x is read ...
QueryX(t) ==
    /\ pc[t] = "q_x"
    /\ loc' = [loc EXCEPT ![t].dx = SquaredDx(index.x, loc[t].lon),
                          ![t].low = Min(@, prov.x),
                          ![t].high = Max(@, prov.x)]
    /\ pc' = [pc EXCEPT ![t] = "q_y"]
    /\ UNCHANGED <<app, tel, bulk, heap, kind, scenario, accepted, last, index, held, queries, reads, returned, overlapped,
                   prov>>

\* a query starts on the rows c it has chosen
StartRows(l, c) ==
    IF c = <<>> THEN Leave(l, "none", <<>>)
    ELSE [l EXCEPT !.choose = c, !.i = 1, !.j = 1, !.rec = NoRecord]

\* ... then self.y, and the two are added.  nearest goes on to choose its rows:
\* k = min(k, d2.shape[0]); if k <= 0: return []; argpartition and argsort
QueryY(t) ==
    /\ pc[t] = "q_y"
    /\ LET l == [loc[t] EXCEPT !.low = Min(@, prov.y), !.high = Max(@, prov.y)]
           d2 == Broadcast(l.dx, SquaredDy(index.y, l.lat))
           kk == Min(l.k, Len(d2.val))
       IN  IF ~d2.ok
           THEN /\ loc' = [loc EXCEPT ![t] = Leave(l, "ValueError", <<>>)]
                /\ pc' = [pc EXCEPT ![t] = "q_release"]
           ELSE IF kind = "results"
           THEN /\ loc' = [loc EXCEPT ![t] = [l EXCEPT !.d2 = d2.val]]
                /\ pc' = [pc EXCEPT ![t] = "q_elig"]
           ELSE IF kk <= 0
           THEN /\ loc' = [loc EXCEPT ![t] = Leave(l, "none", <<>>)]
                /\ pc' = [pc EXCEPT ![t] = "q_release"]
           ELSE \E c \in Selections(d2.val, 1..Len(d2.val), kk) :
                /\ loc' = [loc EXCEPT ![t] = StartRows([l EXCEPT !.d2 = d2.val], c)]
                /\ pc' = [pc EXCEPT ![t] = "q_row"]
    /\ UNCHANGED <<app, tel, bulk, heap, kind, scenario, accepted, last, index, held, queries, reads, returned, overlapped,
                   prov>>

\* nearest_eligible chooses its rows: idx = np.where(self.elig)[0]; if idx.size
\* == 0: return []; k = min(k, idx.size); sub = d2[idx]; argpartition, argsort
QueryElig(t) ==
    /\ pc[t] = "q_elig"
    /\ LET l == [loc[t] EXCEPT !.low = Min(@, prov.elig), !.high = Max(@, prov.elig)]
           idx == Where(index.elig)
           size == Cardinality(idx)
           tk == Taken(Min(l.k, size), size)
       IN  IF idx = {}
           THEN /\ loc' = [loc EXCEPT ![t] = Leave(l, "none", <<>>)]
                /\ pc' = [pc EXCEPT ![t] = "q_release"]
           ELSE IF \E e \in idx : e > Len(l.d2)
           THEN /\ loc' = [loc EXCEPT ![t] = Leave(l, "IndexError", <<>>)]
                /\ pc' = [pc EXCEPT ![t] = "q_release"]
           ELSE IF ~tk.ok
           THEN /\ loc' = [loc EXCEPT ![t] = Leave(l, "ValueError", <<>>)]
                /\ pc' = [pc EXCEPT ![t] = "q_release"]
           ELSE \E c \in Selections(l.d2, idx, tk.n) :
                /\ loc' = [loc EXCEPT ![t] = StartRows(l, c)]
                /\ pc' = [pc EXCEPT ![t] = IF c = <<>> THEN "q_release" ELSE "q_row"]
    /\ UNCHANGED <<app, tel, bulk, heap, kind, scenario, accepted, last, index, held, queries, reads, returned, overlapped,
                   prov>>

\* the attribute a read of the row loop subscripts, the field it fills
RowAttribute(f) == IF f = "lat2" THEN "lat" ELSE IF f = "lon2" THEN "lon" ELSE f

RowField(f) ==
    IF f = "status" THEN "status_text" ELSE IF f = "latency" THEN "latency_sec" ELSE f

\* what the loop appends for a finished row
Finished(rec) ==
    IF kind = "results" THEN rec ELSE [addr |-> rec.addr, lat |-> rec.lat, lon |-> rec.lon]

\* one subscript self.<attribute>[i] of the loop that builds the results, in
\* the order the dict (the MapPoint) evaluates them; the last two feed
\* haversine_km
QueryRow(t) ==
    /\ pc[t] = "q_row"
    /\ LET prog == RowProgram(kind)
           f == prog[loc[t].j]
           a == RowAttribute(f)
           i == loc[t].choose[loc[t].i]
           l == [loc[t] EXCEPT !.low = Min(@, prov[a]), !.high = Max(@, prov[a])]
           v == index[a][i]
           h == haversine_km(Num(l.lat), Num(l.lon), l.hlat, v)
           rec == IF f = "lat2" THEN l.rec
                  ELSE IF f = "lon2" THEN [l.rec EXCEPT !.distance_km = h.val]
                  ELSE [l.rec EXCEPT ![RowField(f)] = v]
       IN  IF i > Len(index[a])
           THEN /\ loc' = [loc EXCEPT ![t] = Leave(l, "IndexError", <<>>)]
                /\ pc' = [pc EXCEPT ![t] = "q_release"]
           ELSE IF f = "lon2" /\ ~h.ok
           THEN /\ loc' = [loc EXCEPT ![t] = Leave(l, "ValueError", <<>>)]
                /\ pc' = [pc EXCEPT ![t] = "q_release"]
           ELSE IF l.j < Len(prog)
           THEN /\ loc' = [loc EXCEPT ![t] =
                              [l EXCEPT !.j = @ + 1, !.rec = rec,
                                        !.hlat = IF f = "lat2" THEN v ELSE @]]
                /\ pc' = pc
           ELSE IF l.i < Len(l.choose)
           THEN /\ loc' = [loc EXCEPT ![t] =
                              [l EXCEPT !.i = @ + 1, !.j = 1, !.rec = NoRecord,
                                        !.hlat = NaN,
                                        !.out = Append(@, Finished(rec))]]
                /\ pc' = pc
           ELSE /\ loc' = [loc EXCEPT ![t] =
                              [l EXCEPT !.rec = NoRecord, !.hlat = NaN,
                                        !.out = Append(@, Finished(rec))]]
                /\ pc' = [pc EXCEPT ![t] = "q_release"]
    /\ UNCHANGED <<app, tel, bulk, heap, kind, scenario, accepted, last, index, held, queries, reads, returned, overlapped,
                   prov>>

Next ==
    \E t \in Threads :
        \/ \E src \in Sources : LoadCall(t, src)
        \/ \E tg \in Targets : \E k \in Ks : QueryCall(t, tg[1], tg[2], k)
        \/ LockRef(t)
        \/ Acquire(t)
        \/ InitStep(t)
        \/ NotReady(t)
        \/ PublishStep(t)
        \/ Release(t)
        \/ Return(t)
        \/ QueryReady(t)
        \/ QueryLen(t)
        \/ QueryX(t)
        \/ QueryY(t)
        \/ QueryElig(t)
        \/ QueryRow(t)

\* concurrent callers of one index
Spec == Init /\ [][Next]_vars

\* one caller, every source of up to MaxRows rows
SpecSingle == InitSingle /\ [][Next]_vars

\* one caller, sources of one row with every eligible field of the catalogue
SpecParse == InitParse /\ [][Next]_vars

\* one caller, the sources of the concurrent scenario, the objects followed
SpecObjects == InitObjects /\ [][Next]_vars

\* the steps of thread t inside a call it has made: everything but the calls
\* themselves, which are the callers' choice
Progress(t) ==
    \/ LockRef(t)
    \/ Acquire(t)
    \/ InitStep(t)
    \/ NotReady(t)
    \/ PublishStep(t)
    \/ Release(t)
    \/ Return(t)
    \/ QueryReady(t)
    \/ QueryLen(t)
    \/ QueryX(t)
    \/ QueryY(t)
    \/ QueryElig(t)
    \/ QueryRow(t)

\* concurrent callers of one index, every thread that can take a step of its
\* call eventually taking one: the interpreter switches between the runnable
\* threads, and a Lock that is free is given to a thread that waits for it
SpecFair == InitFair /\ [][Next]_vars /\ \A t \in Threads : WF_vars(Progress(t))

(***************************************************************************)
(* Properties.                                                             *)
(***************************************************************************)
\* a load is inside its with block
InLoadSection(t) == pc[t] \in {"l_init", "l_notready", "l_publish", "l_release"}

\* no call is in progress
Quiescent == \A t \in Threads : pc[t] = "idle"

\* the number of rows an index holds: the length of its address column
RowCount == Len(index.addr)

\* the columns of the index kind
Columns ==
    IF kind = "results"
    THEN {"addr", "lat", "lon", "x", "y", "elig", "status", "latency", "checked_at"}
    ELSE {"addr", "lat", "lon", "x", "y"}

\* The statement-by-statement actions agree with the functions taken whole:
\* with one caller, a finished query has one of the outcomes QueryOutcomes
\* gives for the index, and a finished load of valid rows leaves the index
\* PublishedIndex builds from them.
SequentialQueryAgrees ==
    scenario = "single" =>
        \A t \in Threads :
            pc[t] = "q_done" =>
                Outcome(loc[t].err, loc[t].out)
                    \in QueryOutcomes(kind, index, loc[t].lat, loc[t].lon, loc[t].k)

SequentialLoadAgrees ==
    scenario = "single" =>
        \A t \in Threads :
            pc[t] = "l_done" /\ loc[t].branch = "data" =>
                index = [PublishedIndex(loc[t].cols) EXCEPT !.lock = index.lock]

\* C1: snapshot isolation.  With at most one load in progress at a time, a
\* query that has finished did not fail on a row index out of range, and when it
\* returned records or raised, every attribute value it read was written by one
\* and the same load (or all by the constructor): its result comes from the
\* dataset published before a concurrent load or from the one published by it,
\* never from parts of both.
C1_SnapshotIsolation ==
    ~overlapped =>
        \A t \in Threads :
            pc[t] = "q_done" =>
                /\ loc[t].err # "IndexError"
                /\ (loc[t].err # "none" \/ loc[t].out # <<>>) => loc[t].low = loc[t].high

\* C2: mutual exclusion per instance.  At most one thread is inside a
\* lock-guarded section, and the index keeps the Lock object it was
\* constructed with.
C2_MutualExclusion ==
    /\ Cardinality({t \in Threads : pc[t] \in SectionPcs}) <= 1
    /\ index.lock = 0

\* C3 as claimed: a query called after a load L returned reads no attribute
\* value written by a load that read its source before L did, whether or not
\* loads overlap.
C3_ReadYourLoad ==
    \A t \in Threads : pc[t] = "q_done" => loc[t].low >= loc[t].floor

\* C3 as amended: the same, in the behaviours in which at most one load is in
\* progress at a time.
C3_ReadYourLoadOneWriter == ~overlapped => C3_ReadYourLoad

\* two loads have run one after the other, and a query called after the second
\* returned has built results from its data
C3_Witness ==
    \E t \in Threads :
        /\ pc[t] = "q_done" /\ ~overlapped
        /\ loc[t].floor = MaxLoads /\ loc[t].low = MaxLoads
        /\ loc[t].out # <<>>

\* C4: parallel columns.  Whenever no load is inside its with block, all
\* columns of the index have the same length.
C4_ParallelColumns ==
    (\A t \in Threads : ~InLoadSection(t))
        => \A a, b \in Columns : Len(index[a]) = Len(index[b])

\* a second load has replaced a dataset by one of another length
C4_Witness ==
    /\ Quiescent /\ reads = MaxLoads /\ last = "data"
    /\ RowCount = 1 /\ Len(index.y) = 1 /\ prov.addr = MaxLoads

\* C5: the ready gate.  ready is false until a load has been called whose
\* source holds a valid row; when a load has completed, ready tells whether
\* that load accepted a row; with no call in progress, ready implies that the
\* index holds a row.
C5_ReadyGate ==
    /\ ~accepted => ~index.ready
    /\ \A t \in Threads : pc[t] = "l_done" => (index.ready <=> loc[t].branch = "data")
    /\ Quiescent /\ index.ready => RowCount > 0

\* a load of a source without a valid row has completed after a load that had
\* set ready
C5_Witness ==
    \E t \in Threads :
        /\ pc[t] = "l_done" /\ loc[t].branch = "empty" /\ loc[t].src.rows # <<>>
        /\ accepted /\ ~index.ready

\* C6: when a load of an existing source without a valid row has completed,
\* the index is as after the load of a missing source: not ready, every column
\* empty.
C6_EmptyResets ==
    \A t \in Threads :
        pc[t] = "l_done" /\ loc[t].branch = "empty"
            => ~index.ready /\ \A a \in Columns : index[a] = <<>>

\* C7: when a load of a missing path has completed the index is not ready and
\* holds no row, and a query called after such a load returned, with no load
\* called since, returns the empty list and raises nothing.
C7_MissingPath ==
    \A t \in Threads :
        /\ pc[t] = "l_done" /\ loc[t].branch = "missing"
              => ~index.ready /\ \A a \in Columns : index[a] = <<>>
        /\ pc[t] = "q_done" /\ last = "missing" /\ loc[t].floor = reads
              => loc[t].err = "none" /\ loc[t].out = <<>>

\* a dataset was loaded, then a missing path, and a query with k = MaxK has
\* returned after that
C7_Witness ==
    \E t \in Threads :
        /\ pc[t] = "q_done" /\ last = "missing" /\ accepted
        /\ loc[t].floor = reads /\ loc[t].k = MaxK

\* C8: every row of the index has a finite latitude and a finite longitude.
C8_FiniteCoordinates ==
    /\ \A i \in 1..Len(index.lat) : IsFinite(index.lat[i])
    /\ \A i \in 1..Len(index.lon) : IsFinite(index.lon[i])

\* a row the claims count as invalid: its address is empty after trimming, or
\* its lat or lon is no number
Unparsable(row) ==
    \/ OrEmptyStrip(row.address) = <<>>
    \/ ~FloatOf(row.lat).ok
    \/ ~FloatOf(row.lon).ok

\* the trimmed addresses of the rows that are not Unparsable, in source order
RECURSIVE KeptAddresses(_)
KeptAddresses(rows) ==
    IF rows = <<>> THEN <<>>
    ELSE IF Unparsable(Head(rows)) THEN KeptAddresses(Tail(rows))
    ELSE <<Strip(Head(rows).address)>> \o KeptAddresses(Tail(rows))

\* C9: row filtering.  When the load of an existing source of N rows, M of
\* them invalid, has completed, the index holds exactly the N - M valid rows in
\* source order, and ready tells whether N - M > 0.
C9_RowFiltering ==
    \A t \in Threads :
        pc[t] = "l_done" /\ loc[t].src.exists
            => LET rows == loc[t].src.rows
                   m == Cardinality({i \in 1..Len(rows) : Unparsable(rows[i])})
               IN  /\ RowCount = Len(rows) - m
                   /\ index.addr = KeptAddresses(rows)
                   /\ index.ready <=> Len(rows) - m > 0

\* C10: eligible only.  Every record nearest_eligible has returned is the
\* record of a row of the index whose eligibility flag is true.
C10_EligibleOnly ==
    \A t \in Threads :
        pc[t] = "q_done" /\ kind = "results" /\ loc[t].err = "none"
            => \A r \in 1..Len(loc[t].out) :
                  \E i \in 1..Len(index.elig) :
                      /\ index.elig[i]
                      /\ loc[t].out[r] =
                            ResultRecord("results", index, loc[t].lat, loc[t].lon, i)

\* the squared planar distances of the rows from the target of thread t's query
PlanarD2(t) ==
    Broadcast(SquaredDx(index.x, loc[t].lon), SquaredDy(index.y, loc[t].lat)).val

\* a query has returned rows although a row that is not eligible lies strictly
\* closer to the target than every eligible row
C10_Witness ==
    \E t \in Threads :
        /\ pc[t] = "q_done" /\ kind = "results" /\ loc[t].out # <<>>
        /\ \E i \in 1..Len(index.elig) :
              /\ ~index.elig[i]
              /\ \A j \in 1..Len(index.elig) :
                    index.elig[j] => FLess(PlanarD2(t)[i], PlanarD2(t)[j])

\* the rows of the index whose eligibility flag is true
EligibleRows == {i \in 1..Len(index.elig) : index.elig[i]}

\* every coordinate of the index is a finite number
AllFinite ==
    /\ \A i \in 1..Len(index.lat) : IsFinite(index.lat[i])
    /\ \A i \in 1..Len(index.lon) : IsFinite(index.lon[i])

\* C11: k semantics.  With one caller, a nearest_eligible(lat, lon, k) that has
\* finished on a ready index with k >= 0 raised nothing and returned the
\* records of exactly min(k, eligible_count) rows, no row twice.
C11_KSemantics ==
    \A t \in Threads :
        pc[t] = "q_done" /\ kind = "results" /\ index.ready /\ loc[t].k >= 0 =>
            /\ loc[t].err = "none"
            /\ Len(loc[t].out) = Min(loc[t].k, Cardinality(EligibleRows))
            /\ loc[t].out # <<>> =>
                   /\ Len(loc[t].choose) = Len(loc[t].out)
                   /\ \A a, b \in 1..Len(loc[t].choose) :
                          a # b => loc[t].choose[a] # loc[t].choose[b]

\* the same for the datasets whose coordinates are all finite
C11_KSemanticsFinite == AllFinite => C11_KSemantics

\* C12: negative k.  With one caller, a nearest_eligible or nearest that has
\* finished on a ready index with k < 0 raised an error: it returned neither
\* the empty list nor a list of rows.
C12_NegativeKFails ==
    \A t \in Threads :
        pc[t] = "q_done" /\ index.ready /\ loc[t].k < 0 => loc[t].err # "none"

\* C13: haversine order.  With one caller, the records a nearest_eligible has
\* returned are in ascending order of their distance_km: no record is followed
\* by one whose haversine distance to the target is smaller.
C13_HaversineOrder ==
    \A t \in Threads :
        pc[t] = "q_done" /\ kind = "results" /\ loc[t].err = "none" =>
            \A a, b \in 1..Len(loc[t].out) :
                a < b =>
                    LET da == loc[t].out[a].distance_km
                        db == loc[t].out[b].distance_km
                    IN  ~(da.k = "num" /\ db.k = "num" /\ db.v < da.v)

\* the rows a query chooses among: the eligible rows, or all the rows
Candidates == IF kind = "results" THEN EligibleRows ELSE 1..Len(index.addr)

\* row i comes before row j when ties are broken by row order: it is nearer in
\* the plane, or as near and earlier in the dataset
BeforeStable(d2, i, j) == FLess(d2[i], d2[j]) \/ (~FLess(d2[j], d2[i]) /\ i < j)

\* the first n candidates in that order
StableChoice(d2, n) ==
    CHOOSE c \in [1..n -> Candidates] :
        /\ \A a, b \in 1..n : a < b => BeforeStable(d2, c[a], c[b])
        /\ \A e \in Candidates :
              (\A a \in 1..n : c[a] # e) => \A a \in 1..n : BeforeStable(d2, c[a], e)

\* C14: tie-breaking.  With one caller, the list a query has returned is the
\* list of the candidates taken in ascending planar distance with equal
\* distances in row order: among equally distant rows the earlier row comes
\* first and is selected first, so the list is a function of the dataset, the
\* target and k.
C14_StableTies ==
    \A t \in Threads :
        pc[t] = "q_done" /\ loc[t].err = "none" /\ loc[t].out # <<>> =>
            LET n == Len(loc[t].out)
                c == StableChoice(PlanarD2(t), n)
            IN  loc[t].out =
                    [r \in 1..n |->
                        ResultRecord(kind, index, loc[t].lat, loc[t].lon, c[r])]

\* C15: no data is no error.  With one caller, a nearest_eligible with k >= 0
\* that has finished on an index that is not ready, or has no row, or has no
\* eligible row, raised nothing and returned the empty list.
C15_EmptyWhenNoData ==
    \A t \in Threads :
        /\ pc[t] = "q_done" /\ kind = "results" /\ loc[t].k >= 0
        /\ (~index.ready \/ Len(index.addr) = 0 \/ EligibleRows = {})
        => loc[t].err = "none" /\ loc[t].out = <<>>

\* the query ran after a load that found no valid row in its source, on an
\* index that had been loaded with eligible rows before
C15_Witness ==
    \E t \in Threads :
        /\ pc[t] = "q_done" /\ kind = "results" /\ loc[t].k = MaxK
        /\ last = "empty" /\ accepted /\ loc[t].floor = MaxLoads
        /\ ~index.ready /\ EligibleRows # {}
        /\ loc[t].out = <<>>

\* what load(src) leaves in a newly constructed index: ready and the columns
FreshLoad(src) ==
    LET cols == ReadRows(kind, src.rows, NoColumns)
    IN  IF src.exists /\ cols.addr # <<>>
        THEN [ready |-> TRUE, addr |-> cols.addr, lat |-> cols.lat, lon |-> cols.lon,
              x |-> to_x_km(cols.lon), y |-> to_y_km(cols.lat), elig |-> cols.elig,
              status |-> cols.status, latency |-> cols.latency,
              checked_at |-> cols.checked_at]
        ELSE [ready |-> FALSE, addr |-> <<>>, lat |-> <<>>, lon |-> <<>>, x |-> <<>>,
              y |-> <<>>, elig |-> <<>>, status |-> <<>>, latency |-> <<>>,
              checked_at |-> <<>>]

\* C16: reload replaces the whole dataset.  With one caller, when load(S) has
\* completed, ready and every column are what load(S) leaves in a newly
\* constructed index, whatever was loaded before; so load(S); load(S) and
\* load(A); load(S) end in the state of load(S).
C16_ReloadReplaces ==
    \A t \in Threads :
        pc[t] = "l_done" =>
            \A a \in Attributes : index[a] = FreshLoad(loc[t].src)[a]

\* every attribute holds the contents of the object it is bound to
HeapAgrees == Tracked => \A a \in ColumnAttributes : index[a] = heap.cell[heap.ref[a]]

\* C17: no in-place mutation.  No step of a load or of a query changes the
\* contents of an object that exists: a load binds its attributes to new
\* objects, so whoever holds an object of an earlier dataset, or values taken
\* from it, keeps what it held.
C17_NoInPlaceMutation ==
    [][\A o \in DOMAIN heap.cell : heap'.cell[o] = heap.cell[o]]_vars

\* after the last load, the object attribute addr was bound to by the first
\* load still holds the addresses of the first load, which are not those the
\* index holds now
C17_Witness ==
    /\ Quiescent /\ reads = MaxLoads /\ last = "data"
    /\ \E o \in DOMAIN heap.cell :
          /\ o = <<1, "addr">> /\ heap.ref.addr = <<MaxLoads, "addr">>
          /\ heap.cell[o] # <<>>
          /\ heap.cell[o] # index.addr

\* C18: eligibility parsing.  When a ResultsIndex load of a file of one valid
\* row has completed, the row is in the index whatever its eligible field is,
\* and its flag is true exactly for the fields that, trimmed and lower-cased,
\* read true, 1, yes, y or t.
C18_EligibilityParsing ==
    \A t \in Threads :
        /\ pc[t] = "l_done" /\ kind = "results" /\ Len(loc[t].src.rows) = 1
        /\ loc[t].src.rows[1].eligible \in TrueTexts \cup FalseTexts
        /\ ~Unparsable(loc[t].src.rows[1])
        => /\ RowCount = 1
           /\ Len(index.elig) = 1
           /\ index.elig[1] <=> loc[t].src.rows[1].eligible \in TrueTexts

\* a load has kept a row with a mixed-case, padded field as eligible
C18_Witness ==
    \E t \in Threads :
        /\ pc[t] = "l_done" /\ kind = "results" /\ Len(loc[t].src.rows) = 1
        /\ loc[t].src.rows[1].eligible = <<"\t", "Y", "e", "S", "\n">>
        /\ index.elig = <<TRUE>>

\* a is a smaller distance than b, both being numbers or infinities
Closer(a, b) == a.k # "nan" /\ b.k # "nan" /\ FLess(a, b)

\* C19: InputIndex.nearest.  With one caller, a nearest(lat, lon, k) with
\* k >= 0 that has finished raised nothing; on an index that is not ready it
\* returned the empty list; on a ready index it returned the MapPoints of
\* min(k, row_count) rows, no row twice, in ascending order of planar distance
\* to the target, no row left out being closer than a row returned.
C19_InputNearest ==
    \A t \in Threads :
        pc[t] = "q_done" /\ kind = "input" /\ loc[t].k >= 0 =>
            LET c == loc[t].choose
                n == Len(loc[t].out)
                d2 == PlanarD2(t)
            IN  /\ loc[t].err = "none"
                /\ ~index.ready => n = 0
                /\ index.ready => n = Min(loc[t].k, RowCount)
                /\ n > 0 =>
                      /\ Len(c) = n
                      /\ \A a \in 1..n :
                            /\ c[a] \in 1..RowCount
                            /\ loc[t].out[a] = [addr |-> index.addr[c[a]],
                                                lat |-> index.lat[c[a]],
                                                lon |-> index.lon[c[a]]]
                      /\ \A a, b \in 1..n : a # b => c[a] # c[b]
                      /\ \A a, b \in 1..n : a < b => ~Closer(d2[c[b]], d2[c[a]])
                      /\ \A e \in 1..RowCount :
                            (\A a \in 1..n : c[a] # e)
                                => \A a \in 1..n : ~Closer(d2[e], d2[c[a]])

\* nearest has returned the second of two rows and left out the first, which
\* is farther from the target
C19_Witness ==
    \E t \in Threads :
        /\ pc[t] = "q_done" /\ kind = "input" /\ index.ready /\ RowCount = 2
        /\ loc[t].k = 1 /\ Len(loc[t].out) = 1
        /\ loc[t].out[1].addr = index.addr[2]
        /\ Closer(PlanarD2(t)[2], PlanarD2(t)[1])

\* the projection of one coordinate pair under the anchor (LAT0, LON0)
ProjectX(lon) == FScale(FSub(lon, Num(LON0)), KM_PER_DEG_LON)

ProjectY(lat) == FScale(FSub(lat, Num(LAT0)), KM_PER_DEG_LAT)

\* C20: projection consistency.  With one caller, when a load that published
\* a dataset has completed, x[i] and y[i] are the projection of lon[i] and
\* lat[i] under the anchor (LAT0, LON0) for every row i, hence the same for
\* every load of the same source; and the squared distances a query has
\* computed are those between the rows and the target projected under that
\* same anchor.
C20_ProjectionConsistent ==
    \A t \in Threads :
        /\ pc[t] = "l_done" /\ loc[t].branch = "data" =>
              /\ Len(index.x) = RowCount /\ Len(index.y) = RowCount
              /\ Len(index.lat) = RowCount /\ Len(index.lon) = RowCount
              /\ \A i \in 1..RowCount :
                    /\ index.x[i] = ProjectX(index.lon[i])
                    /\ index.y[i] = ProjectY(index.lat[i])
              /\ index.x = to_x_km(ReadRows(kind, loc[t].src.rows, NoColumns).lon)
              /\ index.y = to_y_km(ReadRows(kind, loc[t].src.rows, NoColumns).lat)
        /\ pc[t] = "q_done" /\ loc[t].d2 # <<>> =>
              /\ Len(loc[t].d2) = RowCount
              /\ \A i \in 1..RowCount :
                    loc[t].d2[i] =
                        FAdd(FSquare(FSub(ProjectX(index.lon[i]), ProjectX(Num(loc[t].lon)))),
                             FSquare(FSub(ProjectY(index.lat[i]), ProjectY(Num(loc[t].lat)))))

\* a query has computed the distances of the two rows of the dataset that the
\* last of the loads published
C20_Witness ==
    \E t \in Threads :
        /\ pc[t] = "q_done" /\ Len(loc[t].d2) = 2 /\ loc[t].d2[1] # loc[t].d2[2]
        /\ reads = MaxLoads /\ last = "data"
        /\ prov.x = MaxLoads /\ prov.y = MaxLoads

\* C22: selection correctness.  With one caller, a nearest_eligible(lat, lon, k)
\* with k >= 1 that has finished on a ready index holding an eligible row raised
\* nothing and returned the records of min(k, eligible_count) eligible rows, no
\* row twice, in non-decreasing order of squared planar distance to the target,
\* no eligible row left out being strictly closer than a row returned.
C22_SelectionCorrect ==
    \A t \in Threads :
        pc[t] = "q_done" /\ kind = "results" /\ index.ready /\ loc[t].k >= 1
                /\ EligibleRows # {} =>
            LET c == loc[t].choose
                n == Min(loc[t].k, Cardinality(EligibleRows))
                d2 == PlanarD2(t)
            IN  /\ loc[t].err = "none"
                /\ Len(loc[t].out) = n
                /\ Len(c) = n
                /\ \A a \in 1..n :
                      /\ c[a] \in EligibleRows
                      /\ loc[t].out[a] =
                            ResultRecord("results", index, loc[t].lat, loc[t].lon, c[a])
                /\ \A a, b \in 1..n : a # b => c[a] # c[b]
                /\ \A a, b \in 1..n : a < b => ~Closer(d2[c[b]], d2[c[a]])
                /\ \A e \in EligibleRows :
                      (\A a \in 1..n : c[a] # e)
                          => \A a \in 1..n : ~Closer(d2[e], d2[c[a]])

\* C23: no deadlock and no leaked lock.  Under fair scheduling every load and
\* every query that a thread has called eventually returns to its caller,
\* whatever the sources and whether or not it raised; and whenever no call is in
\* progress no Lock object is held.
C23_CallsReturn ==
    /\ \A t \in Threads : (pc[t] # "idle") ~> (pc[t] = "idle")
    /\ [](Quiescent => held = {})

\* a query that raised inside its with block is about to return, no Lock
\* object being held
C23_Witness ==
    \E t \in Threads : pc[t] = "q_done" /\ loc[t].err # "none" /\ held = {}

(***************************************************************************)
(* src/app.py: the request handlers that read results_index.  They are     *)
(* coroutines of one event loop: a handler runs alone from one await to    *)
(* the next, and no other thread calls the index.                          *)
(***************************************************************************)
\* requests served in one behaviour, and times results.csv is rewritten
MaxRequests == 3
MaxWrites == 1
\* largest max_points (and n) of a request
MaxPoints == 2

\* ResultsIndex.load(path) run with no other thread in between
LoadWhole(s, src) ==
    LET cols == ReadRows("results", src.rows, NoColumns)
    IN  IF ~src.exists THEN NewIndex(s.lock + 1)
        ELSE IF cols.addr = <<>> THEN [s EXCEPT !.ready = FALSE]
        ELSE [PublishedIndex(cols) EXCEPT !.lock = s.lock]

\* a faulty variant of LazyLoad: the index is loaded whether ready or not
LazyLoadAlways(s, src) ==
    [saw |-> s.ready, loaded |-> TRUE, index |-> LoadWhole(s, src)]

\* if not results_index.ready: results_index.load(DEFAULT_RESULTS_CSV)
LazyLoad(s, src) ==
    [saw |-> s.ready, loaded |-> ~s.ready,
     index |-> IF ~s.ready THEN LoadWhole(s, src) ELSE s]

\* a faulty variant of MapPoints: max_points is not applied
MapPointsUncapped(s, max_points) ==
    [i \in 1..Len(s.addr) |->
        [addr |-> s.addr[i], lat |-> s.lat[i], lon |-> s.lon[i],
         available |-> s.elig[i], status |-> s.status[i],
         checked_at |-> s.checked_at[i]]]

\* for i in range(min(len(results_index.addr), max_points)): addresses.append(...)
MapPoints(s, max_points) ==
    [i \in 1..Min(Len(s.addr), max_points) |->
        [addr |-> s.addr[i], lat |-> s.lat[i], lon |-> s.lon[i],
         available |-> s.elig[i], status |-> s.status[i],
         checked_at |-> s.checked_at[i]]]

\* the datasets that loads have published, the index being left as s: a ready
\* index holds the dataset of the load that made it ready
Published(sets, s) == IF s.ready THEN sets \cup {[s EXCEPT !.lock = 0]} ELSE sets

\* a request handler that is not running
NoTask ==
    [h |-> "none", saw |-> FALSE, loaded |-> FALSE, ready |-> FALSE, err |-> "none",
     pts |-> <<>>, sent |-> 0, max |-> 0, done |-> FALSE]

\* get_map_data and websocket_map_data after the lazy load z, up to the list
\* of addresses: what the handler leaves in the index and what it found
MapData(z, max_points) ==
    LET n == Min(Len(z.index.addr), max_points)
        short == \E a \in {"lat", "lon", "elig", "status", "checked_at"} :
                    Len(z.index[a]) < n
        err == IF ~z.index.ready \/ Len(z.index.addr) = 0 THEN "no_data"
               ELSE IF short THEN "failed" ELSE "none"
    IN  [index |-> z.index,
         task |-> [NoTask EXCEPT !.saw = z.saw, !.loaded = z.loaded,
                                 !.ready = z.index.ready, !.err = err, !.max = max_points,
                                 !.pts = IF err = "none" THEN MapPoints(z.index, max_points)
                                         ELSE <<>>]]

\* websocket_fromdata after the lazy load z, up to the list of nearest rows:
\* an exception of nearest_eligible is caught by the handler and only printed
FromData(z, lat, lon, n) ==
    {[index |-> z.index,
      task |-> [NoTask EXCEPT !.saw = z.saw, !.loaded = z.loaded,
                              !.ready = z.index.ready, !.max = n,
                              !.err = IF o.err # "none" THEN "exception"
                                      ELSE IF o.out = <<>> THEN "no_eligible"
                                      ELSE "none",
                              !.pts = o.out]] :
        o \in NearestEligible(z.index, lat, lon, n)}

\* the application has been imported: results.csv holds some rows or is
\* missing, and results_index.load(DEFAULT_RESULTS_CSV) has run
InitApp ==
    /\ kind = "results"
    /\ scenario = "app"
    /\ \E src \in SmallSources :
          /\ index = LoadWhole(NewIndex(0), src)
          /\ app = [file |-> src, task |-> [t \in Threads |-> NoTask],
                    requests |-> 0, writes |-> 0,
                    published |-> Published({}, LoadWhole(NewIndex(0), src))]
    /\ held = {}
    /\ pc = [t \in Threads |-> "idle"]
    /\ loc = [t \in Threads |-> NoLocals]
    /\ queries = 0
    /\ reads = 0
    /\ returned = 0
    /\ overlapped = FALSE
    /\ accepted = FALSE
    /\ last = "none"
    /\ prov = [a \in Attributes |-> 0]
    /\ heap = NewHeap
    /\ tel = <<>>
    /\ bulk = <<>>

\* a request starts handler h in slot t and runs to its first await or to its
\* return, leaving the index r.index and the task record r.task; get_map_data
\* returns all its points at once, a websocket handler sends them one by one
Serve(t, h, r) ==
    /\ app.task[t].h = "none"
    /\ app.requests < MaxRequests
    /\ index' = r.index
    /\ app' = [app EXCEPT
                 !.task[t] = [r.task EXCEPT
                                 !.h = h,
                                 !.sent = IF h = "get_map_data" THEN Len(r.task.pts) ELSE 0,
                                 !.done = \/ h \in {"get_map_data", "test_database"}
                                          \/ r.task.err # "none"
                                          \/ r.task.pts = <<>>],
                 !.requests = @ + 1,
                 !.published = Published(@, r.index)]
    /\ UNCHANGED <<callers, tel, bulk>>

\* GET /test-database: the index is reloaded
TestDatabase(t) ==
    Serve(t, "test_database", [index |-> LoadWhole(index, app.file), task |-> NoTask])

\* GET /api/map-data: the whole handler, which awaits nothing
GetMapData(t, max_points) ==
    Serve(t, "get_map_data", MapData(LazyLoad(index, app.file), max_points))

\* /ws_map_data, from the request received to the first send_text
WsMapData(t, max_points) ==
    Serve(t, "ws_map_data", MapData(LazyLoad(index, app.file), max_points))

\* /ws_fromdata, from the request received to the first send_text
WsFromData(t, lat, lon, n) ==
    \E r \in FromData(LazyLoad(index, app.file), lat, lon, n) : Serve(t, "ws_fromdata", r)

\* await websocket.send_text(...) of the next address of the list
WsSend(t) ==
    /\ app.task[t].h \in {"ws_map_data", "ws_fromdata"}
    /\ ~app.task[t].done
    /\ app' = [app EXCEPT !.task[t].sent = @ + 1,
                          !.task[t].done = (app.task[t].sent + 1 = Len(app.task[t].pts))]
    /\ UNCHANGED <<index, callers, tel, bulk>>

\* the handler has returned and its websocket is closed
Close(t) ==
    /\ app.task[t].done
    /\ app' = [app EXCEPT !.task[t] = NoTask]
    /\ UNCHANGED <<index, callers, tel, bulk>>

\* results.csv is rewritten by the bulk checker, or removed
FileWritten(src) ==
    /\ app.writes < MaxWrites
    /\ src # app.file
    /\ app' = [app EXCEPT !.file = src, !.writes = @ + 1]
    /\ UNCHANGED <<index, callers, tel, bulk>>

NextApp ==
    \/ \E src \in SmallSources : FileWritten(src)
    \/ \E t \in Threads :
        \/ TestDatabase(t)
        \/ \E m \in 0..MaxPoints : GetMapData(t, m)
        \/ \E m \in 0..MaxPoints : WsMapData(t, m)
        \/ \E n \in 1..MaxPoints : WsFromData(t, TargetA[1], TargetA[2], n)
        \/ WsSend(t)
        \/ Close(t)

\* the request handlers of the application on its event loop
SpecApp == InitApp /\ [][NextApp]_vars

C25_MapPointsConsistent ==
    \A t \in Threads :
        app.task[t].h \in {"get_map_data", "ws_map_data"} =>
            LET k == app.task[t]
            IN  /\ k.sent <= Len(k.pts)
                /\ Len(k.pts) <= Max(k.max, 0)
                /\ k.pts # <<>> => \E d \in app.published :
                      \A i \in 1..Len(k.pts) :
                          /\ i <= Len(d.addr)
                          /\ k.pts[i] = [addr |-> d.addr[i], lat |-> d.lat[i],
                                         lon |-> d.lon[i], available |-> d.elig[i],
                                         status |-> d.status[i],
                                         checked_at |-> d.checked_at[i]]

\* ws_map_data has sent its one point, row A of a dataset of two rows cut at
\* max_points = 1, after a reload has replaced that dataset by row C
C25_Witness ==
    \E t \in Threads :
        /\ app.task[t].h = "ws_map_data"
        /\ app.task[t].max = 1 /\ app.task[t].sent = 1
        /\ app.task[t].pts[1].addr = <<"A">>
        /\ index.ready /\ index.addr = << <<"C">> >>

(***************************************************************************)
(* src/telstra5g.py: Telstra5GChecker, its result cache and the browser    *)
(* sessions of check, called from the threads of a pool.  The clock counts *)
(* weeks, the unit of the cache's time to live.                            *)
(***************************************************************************)
\* config.RESULT_CACHE_TTL = 7 * 24 * 3600 seconds: one week
RESULT_CACHE_TTL == 1
\* the latest time of the clock, and the calls of check in one behaviour
MaxTime == 2
MaxChecks == 3

\* the largest batch_size of a bulk run
MaxBatch == 2

\* a faulty variant of Expired: no entry is ever too old
NeverExpired(ts, now) == FALSE

\* time.time() - ts > self.cache_ttl
Expired(ts, now) == now - ts > RESULT_CACHE_TTL

\* a thread that is in no call of the checker; touched records what its call
\* has done to the cache, driver the session it has opened: tel.drivers holds
\* for every session opened the number of times it was quit
NoCall ==
    [pc |-> "idle", addr |-> <<>>, session |-> FALSE, hit |-> {}, at |-> 0,
     driver |-> 0, res |-> [via |-> "none", available |-> FALSE, status |-> "none"],
     exc |-> "none", touched |-> {}]

\* the checker has been constructed: an empty cache and no browser session
InitChecker ==
    /\ scenario = "checker"
    /\ kind = "results"
    /\ index = NewIndex(0)
    /\ held = {}
    /\ pc = [t \in Threads |-> "idle"]
    /\ loc = [t \in Threads |-> NoLocals]
    /\ queries = 0
    /\ reads = 0
    /\ returned = 0
    /\ overlapped = FALSE
    /\ accepted = FALSE
    /\ last = "none"
    /\ prov = [a \in Attributes |-> 0]
    /\ heap = NewHeap
    /\ app = <<>>
    /\ tel = [now |-> 0, cache |-> {}, puts |-> {}, drivers |-> <<>>, calls |-> 0,
              call |-> [t \in Threads |-> NoCall]]
    /\ bulk = <<>>

\* check(addr), or check_with_existing_session(driver, wait, addr) with a
\* session of the caller, is called in thread t; the threads being alike, the
\* first call is thread 1's
CheckCall(t, addr, session) ==
    /\ tel.call[t].pc = "idle"
    /\ tel.calls < MaxChecks
    /\ tel.calls = 0 => t = 1
    /\ tel' = [tel EXCEPT !.calls = @ + 1,
                          !.call[t] = [NoCall EXCEPT !.addr = addr, !.session = session,
                                                     !.pc = IF session THEN "navigate"
                                                            ELSE "get"]]
    /\ UNCHANGED <<index, callers, app, bulk>>

\* check_with_existing_session: the page is brought up in the caller's
\* session; an exception of the second attempt is not caught
Navigate(t) ==
    /\ tel.call[t].pc = "navigate"
    /\ \E e \in {"none", "TimeoutException"} :
          tel' = [tel EXCEPT !.call[t].exc = e,
                             !.call[t].pc = IF e = "none" THEN "get" ELSE "ret"]
    /\ UNCHANGED <<index, callers, app, bulk>>

\* _cache_get(addr): the entry of the key is read, and then judged by its age;
\* an entry found too old is popped.  A hit ends the call with "cache:" status
Lookup(t) ==
    LET c == tel.call[t]
        key == Lower(Strip(c.addr))
        miss == IF c.session THEN "flow" ELSE "open"
    IN  /\ c.pc \in {"get", "judge"}
        /\ IF c.pc = "get"
           THEN LET found == {e \in tel.cache : e.key = key}
                IN  tel' = [tel EXCEPT !.call[t].hit = found,
                                       !.call[t].pc = IF found = {} THEN miss ELSE "judge"]
           ELSE \E e \in c.hit :
                    IF Expired(e.ts, tel.now)
                    THEN tel' = [tel EXCEPT
                                    !.cache = {x \in @ : x.key # key},
                                    !.call[t].hit = {},
                                    !.call[t].touched = @ \cup {"pop"},
                                    !.call[t].pc = miss]
                    ELSE tel' = [tel EXCEPT
                                    !.call[t].hit = {},
                                    !.call[t].at = tel.now,
                                    !.call[t].res = [via |-> "cache", available |-> e.available,
                                                     status |-> e.status],
                                    !.call[t].pc = "ret"]
        /\ UNCHANGED <<index, callers, app, bulk>>

\* open_driver(): a browser session is started, or starting it raises a
\* WebDriverException or another exception, which check does not catch
OpenDriver(t) ==
    /\ tel.call[t].pc = "open"
    /\ \E e \in {"none", "WebDriverException", "OSError"} :
          IF e = "none"
          THEN tel' = [tel EXCEPT
                          !.drivers = Append(@, 0),
                          !.call[t].driver = Len(tel.drivers) + 1,
                          !.call[t].pc = "flow"]
          ELSE tel' = [tel EXCEPT !.call[t].exc = e, !.call[t].pc = "ret"]
    /\ UNCHANGED <<index, callers, app, bulk>>

\* a faulty variant of PageFlow: the except clause stores its result too
PageFlowCachesError(t) ==
    LET c == tel.call[t]
        e == [key |-> Lower(Strip(c.addr)), available |-> FALSE,
              status |-> "TimeoutException", ts |-> tel.now]
    IN  /\ c.pc = "flow"
        /\ tel' = [tel EXCEPT
                      !.cache = {x \in @ : x.key # e.key} \cup {e},
                      !.call[t].touched = @ \cup {"put"},
                      !.call[t].res = [via |-> "error", available |-> FALSE,
                                       status |-> "TimeoutException"],
                      !.call[t].pc = IF c.session THEN "ret" ELSE "quit"]
        /\ UNCHANGED <<index, callers, app, bulk>>

\* the try block: the page flow gives (available, status), which _cache_put
\* stores under the key with the time, or it raises and the except clause
\* makes the result (False, "error:<name>")
PageFlow(t) ==
    LET c == tel.call[t]
        next == IF c.session THEN "ret" ELSE "quit"
    IN  /\ c.pc = "flow"
        /\ \/ \E r \in {[available |-> TRUE, status |-> "eligible"],
                        [available |-> FALSE, status |-> "no_suggestions"]} :
                LET e == [key |-> Lower(Strip(c.addr)), available |-> r.available,
                          status |-> r.status, ts |-> tel.now]
                IN  tel' = [tel EXCEPT
                               !.cache = {x \in @ : x.key # e.key} \cup {e},
                               !.puts = @ \cup {e},
                               !.call[t].touched = @ \cup {"put"},
                               !.call[t].res = [via |-> "page", available |-> r.available,
                                                status |-> r.status],
                               !.call[t].pc = next]
           \/ tel' = [tel EXCEPT
                         !.call[t].res = [via |-> "error", available |-> FALSE,
                                          status |-> "TimeoutException"],
                         !.call[t].pc = next]
        /\ UNCHANGED <<index, callers, app, bulk>>

\* a faulty variant of Quit: the session is closed on the success path only
QuitOnSuccess(t) ==
    /\ tel.call[t].pc = "quit"
    /\ tel' = [tel EXCEPT
                  !.drivers[tel.call[t].driver] =
                      IF tel.call[t].res.via = "error" THEN @ ELSE @ + 1,
                  !.call[t].pc = "ret"]
    /\ UNCHANGED <<index, callers, app, bulk>>

\* finally: driver.quit(), which may itself raise and so replace the result
Quit(t) ==
    /\ tel.call[t].pc = "quit"
    /\ \E e \in {"none", "WebDriverException"} :
          tel' = [tel EXCEPT !.drivers[tel.call[t].driver] = @ + 1,
                             !.call[t].exc = e,
                             !.call[t].pc = "ret"]
    /\ UNCHANGED <<index, callers, app, bulk>>

\* the call returns its result, or raises, to the pool
CheckReturn(t) ==
    /\ tel.call[t].pc = "ret"
    /\ tel' = [tel EXCEPT !.call[t] = NoCall]
    /\ UNCHANGED <<index, callers, app, bulk>>

\* time passes
Tick ==
    /\ tel.now < MaxTime
    /\ tel' = [tel EXCEPT !.now = @ + 1]
    /\ UNCHANGED <<index, callers, app, bulk>>

NextChecker ==
    \/ Tick
    \/ \E t \in Threads :
        \/ \E c \in {<< <<"A">>, FALSE >>, << <<" ", "a">>, TRUE >>, << <<"B">>, FALSE >>} :
              CheckCall(t, c[1], c[2])
        \/ Navigate(t)
        \/ Lookup(t)
        \/ OpenDriver(t)
        \/ PageFlow(t)
        \/ Quit(t)
        \/ CheckReturn(t)

\* one checker called from the threads of a pool
SpecChecker == InitChecker /\ [][NextChecker]_vars

\* C26: result cache freshness.  A lookup that has returned a pair returned the
\* pair of an entry that a call has put under the normalized key of the address
\* looked up, no older than cache_ttl when it was judged; and a lookup that finds
\* its entry older than cache_ttl returns nothing and leaves no entry under that
\* key in the cache.
C26_CacheFresh ==
    /\ [](\A t \in Threads :
             tel.call[t].res.via = "cache" =>
                 \E e \in tel.puts :
                     /\ e.key = Lower(Strip(tel.call[t].addr))
                     /\ e.available = tel.call[t].res.available
                     /\ e.status = tel.call[t].res.status
                     /\ tel.call[t].at - e.ts <= RESULT_CACHE_TTL)
    /\ [][\A t \in Threads :
             tel.call[t].pc = "judge" /\ tel'.call[t].pc # "judge"
                     /\ (\E e \in tel.call[t].hit : tel.now - e.ts > RESULT_CACHE_TTL) =>
                 /\ tel'.call[t].res.via # "cache"
                 /\ \A x \in tel'.cache : x.key # Lower(Strip(tel.call[t].addr))]_vars

\* an address has been looked up twice after a put under its key in another
\* spelling: once in time, which gave the stored pair, and once too late,
\* which removed the entry
C26_Witness ==
    /\ tel.call[1].res.via = "cache" /\ tel.call[1].addr = <<" ", "a">>
    /\ tel.call[2].addr = <<"A">> /\ "pop" \in tel.call[2].touched
    /\ tel.cache = {}

\* C27 as stated: a call of check or check_with_existing_session that ends with
\* an "error:" status has left the cache unchanged; a call that ends with a
\* cache hit returns the stored pair with "cache:" status and, in check, has
\* opened no browser session.
C27_ErrorsLeaveCache ==
    \A t \in Threads :
        /\ tel.call[t].res.via = "error" => tel.call[t].touched = {}
        /\ tel.call[t].res.via = "cache" =>
              /\ tel.call[t].touched = {}
              /\ ~tel.call[t].session => tel.call[t].driver = 0
              /\ \E e \in tel.puts :
                    /\ e.key = Lower(Strip(tel.call[t].addr))
                    /\ e.available = tel.call[t].res.available
                    /\ e.status = tel.call[t].res.status

\* C27 amended: a call that ends with an "error:" status has put no entry in
\* the cache, the one change it can have made being the removal of an entry of
\* its key that its lookup found expired; a call that ends with a cache hit has
\* not changed the cache, returns the stored pair with "cache:" status and, in
\* check, has opened no browser session.
C27_ErrorsNotCached ==
    \A t \in Threads :
        /\ tel.call[t].res.via = "error" => "put" \notin tel.call[t].touched
        /\ tel.call[t].res.via = "cache" =>
              /\ tel.call[t].touched = {}
              /\ ~tel.call[t].session => tel.call[t].driver = 0
              /\ \E e \in tel.puts :
                    /\ e.key = Lower(Strip(tel.call[t].addr))
                    /\ e.available = tel.call[t].res.available
                    /\ e.status = tel.call[t].res.status

\* a check of an address whose entry had expired removed the entry, then failed
\* in the page flow and returned an "error:" status: the cache holds nothing
C27_Witness ==
    \E t \in Threads :
        /\ tel.call[t].pc = "ret" /\ ~tel.call[t].session
        /\ tel.call[t].res.via = "error" /\ tel.call[t].exc = "none"
        /\ tel.call[t].touched = {"pop"}
        /\ tel.puts # {} /\ tel.cache = {}

\* C28: browser sessions do not leak.  Whatever the interleaving of the calls
\* of check, no session that check has opened is quit twice, and a session
\* that has not been quit belongs to a call that is still between open_driver
\* and its finally clause: when check returns or raises, the session it opened
\* has been quit exactly once.
C28_DriversQuitOnce ==
    \A d \in 1..Len(tel.drivers) :
        /\ tel.drivers[d] <= 1
        /\ \A t \in Threads : tel.call[t].pc = "ret" /\ tel.call[t].driver = d
                                 => tel.drivers[d] = 1
        /\ tel.drivers[d] = 0 =>
              \E t \in Threads : tel.call[t].driver = d /\ tel.call[t].pc \in {"flow", "quit"}

\* two calls of check ran at the same time, one failed in the page flow and
\* has returned its "error:" status, the other is still in its session
C28_Witness ==
    /\ Len(tel.drivers) = 2
    /\ \E t, u \in Threads :
          /\ tel.call[t].pc = "ret" /\ tel.call[t].res.via = "error"
          /\ tel.call[t].driver # 0 /\ tel.drivers[tel.call[t].driver] = 1
          /\ tel.call[u].pc = "quit" /\ tel.drivers[tel.call[u].driver] = 0

(***************************************************************************)
(* src/bulk_checker.py: main, BulkChecker.run and the pool workers that    *)
(* run _check_single_address_with_retry, each attempt being a call of      *)
(* Telstra5GChecker.check.                                                 *)
(***************************************************************************)
\* the default of max_retries in _check_single_address_with_retry
max_retries == 3

\* a faulty variant of NextBatch: the next batch takes every remaining address
NextBatchAll(todo, size) == todo

\* addresses_to_check[i:i + batch_size]: the addresses of the next batch
NextBatch(todo, size) == SubSeq(todo, 1, Min(size, Len(todo)))

\* main has parsed its arguments and constructed the BulkChecker, and run has
\* fetched the addresses, made addresses_to_check and submitted the tasks of
\* the first batch: results.csv (exists or not) gave existing,
\* failed_addresses.json gave file, --retry-failed empties the list of failed
\* addresses, and run returns at once when nothing was fetched
InitBulk ==
    /\ scenario = "bulk"
    /\ kind = "results"
    /\ index = NewIndex(0)
    /\ held = {}
    /\ pc = [t \in Threads |-> "idle"]
    /\ loc = [t \in Threads |-> NoLocals]
    /\ queries = 0
    /\ reads = 0
    /\ returned = 0
    /\ overlapped = FALSE
    /\ accepted = FALSE
    /\ last = "none"
    /\ prov = [a \in Attributes |-> 0]
    /\ heap = NewHeap
    /\ app = <<>>
    /\ tel = [now |-> 0, cache |-> {}, puts |-> {}, drivers |-> <<>>, calls |-> 0,
              call |-> [t \in Threads |-> NoCall]]
    /\ \E retry \in BOOLEAN :
       \E fetched \in {<<>>, << <<"A">> >>} :
       \E file \in {<<>>, << <<"a">> >>, << <<"B">> >>} :
       \E results \in {<<>>, <<"header">>, <<"header", "row">>} :
       \E batch_size \in 1..MaxBatch :
          LET existing == IF Len(results) = 2 THEN {<<"b">>} ELSE {}
              failed_addresses == IF retry THEN <<>> ELSE file
              eligible == SelectSeq(fetched \o failed_addresses,
                                    LAMBDA a : Lower(a) \notin existing)
              all == IF fetched = <<>> THEN <<>> ELSE eligible
              first == NextBatch(all, batch_size)
          IN  bulk = [retry |-> retry, fetched |-> fetched, file |-> file,
                      loaded |-> existing, existing |-> existing, text |-> results,
                      csv |-> <<>>,
                      checked |-> {}, batch_size |-> batch_size, all |-> all,
                      queue |-> first,
                      todo |-> SubSeq(all, Len(first) + 1, Len(all)),
                      pending |-> Len(first),
                      batches |-> IF all = <<>> THEN 0 ELSE 1,
                      started |-> <<>>,
                      worker |-> [t \in Threads |-> [state |-> "idle"]],
                      successful |-> 0, failed |-> <<>>, saved |-> file,
                      done |-> all = <<>>]

\* a pool thread takes the next submitted task of the batch, which begins with
\* the test whether the address has already been checked
Submit(t) ==
    /\ bulk.worker[t].state = "idle"
    /\ \A u \in Threads : u < t => bulk.worker[u].state # "idle"
    /\ bulk.queue # <<>>
    /\ LET a == Head(bulk.queue)
           skip == Lower(a) \in bulk.existing
       IN  bulk' = [bulk EXCEPT
                       !.queue = Tail(@),
                       !.started = Append(@, [addr |-> a, batch |-> bulk.batches]),
                       !.worker[t] = [state |-> IF skip THEN "returned" ELSE "try",
                                      addr |-> a, skipped |-> skip, attempt |-> 0,
                                      sleeps |-> 0, ends |-> <<>>, ret |-> "none",
                                      file_exists |-> FALSE]]
    /\ UNCHANGED <<index, callers, app, tel>>

\* one turn of the loop over the attempts, up to the call of checker.check:
\* every attempt but the first sleeps before
Attempt(t) ==
    /\ bulk.worker[t].state = "try"
    /\ bulk' = [bulk EXCEPT
                   !.worker[t].state = "calling",
                   !.worker[t].sleeps = IF bulk.worker[t].attempt > 0 THEN @ + 1 ELSE @,
                   !.checked = @ \cup {bulk.worker[t].addr}]
    /\ tel' = [tel EXCEPT !.call[t] = [NoCall EXCEPT !.addr = bulk.worker[t].addr,
                                                     !.pc = "get"]]
    /\ UNCHANGED <<index, callers, app>>

\* a faulty variant of AttemptDone: an exception that is no loading error is
\* retried like one
AttemptDoneRetriesAny(t) ==
    LET w == bulk.worker[t]
        c == tel.call[t]
    IN  /\ w.state = "calling" /\ c.pc = "ret"
        /\ IF c.exc = "none"
           THEN /\ bulk' = [bulk EXCEPT
                               !.worker[t].ends = Append(@, c.exc),
                               !.worker[t].file_exists = bulk.text # <<>>,
                               !.worker[t].state = "saving"]
                /\ tel' = tel
           ELSE /\ bulk' = [bulk EXCEPT
                               !.worker[t].ends = Append(@, c.exc),
                               !.worker[t].attempt = @ + 1,
                               !.worker[t].state =
                                   IF w.attempt < max_retries - 1 THEN "try"
                                   ELSE "returned"]
                /\ tel' = [tel EXCEPT !.call[t] = NoCall]
        /\ UNCHANGED <<index, callers, app>>

\* the call of checker.check has ended.  With a result, whatever its status,
\* _save_result begins by testing whether results.csv exists; a loading error
\* leads to the next attempt, or to None after the last one; any other
\* exception leads to None
AttemptDone(t) ==
    LET w == bulk.worker[t]
        c == tel.call[t]
        loading == c.exc \in {"ElementNotInteractableException", "TimeoutException",
                              "WebDriverException"}
    IN  /\ w.state = "calling" /\ c.pc = "ret"
        /\ IF c.exc = "none"
           THEN /\ bulk' = [bulk EXCEPT
                               !.worker[t].ends = Append(@, c.exc),
                               !.worker[t].file_exists = bulk.text # <<>>,
                               !.worker[t].state = "saving"]
                /\ tel' = tel
           ELSE /\ bulk' = [bulk EXCEPT
                               !.worker[t].ends = Append(@, c.exc),
                               !.worker[t].attempt = IF loading THEN @ + 1 ELSE @,
                               !.worker[t].state =
                                   IF loading /\ w.attempt < max_retries - 1 THEN "try"
                                   ELSE "returned"]
                /\ tel' = [tel EXCEPT !.call[t] = NoCall]
        /\ UNCHANGED <<index, callers, app>>

\* the rest of _save_result and the return of the task: results.csv is opened
\* for appending, the header is written when the file was missing at the test,
\* the row is written; the address joins existing_addresses and the result is
\* returned
SaveResult(t) ==
    LET w == bulk.worker[t]
        c == tel.call[t]
    IN  /\ w.state = "saving"
        /\ bulk' = [bulk EXCEPT
                       !.text = @ \o (IF w.file_exists THEN <<>> ELSE <<"header">>)
                                  \o <<"row">>,
                       !.csv = Append(@, [address |-> w.addr,
                                          eligible |-> c.res.available,
                                          via |-> c.res.via]),
                       !.existing = @ \cup {Lower(w.addr)},
                       !.worker[t].ret = "result",
                       !.worker[t].state = "returned"]
        /\ tel' = [tel EXCEPT !.call[t] = NoCall]
        /\ UNCHANGED <<index, callers, app>>

\* the main thread takes a finished task (as_completed): a result counts as
\* successful, None as failed, the address going to the failed list.  After
\* the last task of the batch run submits the next batch; after the last
\* batch it saves the failed list, if it is not empty
Collect(t) ==
    LET w == bulk.worker[t]
        failed == IF w.ret = "result" THEN bulk.failed ELSE Append(bulk.failed, w.addr)
        next == IF bulk.pending = 1 THEN NextBatch(bulk.todo, bulk.batch_size) ELSE <<>>
        over == bulk.pending = 1 /\ bulk.todo = <<>>
    IN  /\ w.state = "returned"
        /\ bulk' = [bulk EXCEPT
                       !.worker[t] = [state |-> "idle"],
                       !.successful = IF w.ret = "result" THEN @ + 1 ELSE @,
                       !.failed = failed,
                       !.pending = IF next # <<>> THEN Len(next) ELSE @ - 1,
                       !.queue = IF next # <<>> THEN next ELSE @,
                       !.todo = SubSeq(@, Len(next) + 1, Len(@)),
                       !.batches = IF next # <<>> THEN @ + 1 ELSE @,
                       !.saved = IF over /\ failed # <<>> THEN failed ELSE @,
                       !.done = over]
        /\ UNCHANGED <<index, callers, app, tel>>

NextBulk ==
    \E t \in Threads :
        \/ Submit(t)
        \/ Attempt(t)
        \/ Lookup(t)
        \/ OpenDriver(t)
        \/ PageFlow(t)
        \/ Quit(t)
        \/ AttemptDone(t)
        \/ SaveResult(t)
        \/ Collect(t)

\* one run of the bulk checker
SpecBulk == InitBulk /\ [][NextBulk]_vars

\* C21: in a run with --retry-failed, every address handed to the checker is
\* one of the addresses that failed_addresses.json held when the run began
C21_RetryChecksOnlyFailed ==
    (scenario = "bulk" /\ bulk.retry) =>
        \A a \in bulk.checked : \E i \in 1..Len(bulk.file) : bulk.file[i] = a

\* C29: _check_single_address_with_retry makes at most max_retries attempts
\* for one address, each but the first after a delay; an attempt follows only
\* attempts that ended in a loading error; the task returns the result of the
\* first attempt that completes, None after a loading error on the last
\* attempt, None at once after any other exception; and a task whose address
\* is in existing_addresses when it starts returns None without any attempt
C29_BoundedRetry ==
    /\ [](scenario = "bulk" =>
          LET Loading == {"ElementNotInteractableException", "TimeoutException",
                          "WebDriverException"}
              Earlier(w, n) == \A i \in 1..n : w.ends[i] \in Loading
          IN
          \A t \in Threads :
             LET w == bulk.worker[t]
                 n == Len(w.ends)
             IN  w.state # "idle" =>
                    /\ n + (IF w.state = "calling" THEN 1 ELSE 0) <= max_retries
                    /\ w.state = "try" =>
                          /\ ~w.skipped /\ n < max_retries /\ Earlier(w, n)
                          /\ w.sleeps = IF n = 0 THEN 0 ELSE n - 1
                    /\ w.state = "calling" =>
                          /\ ~w.skipped /\ Earlier(w, n) /\ w.sleeps = n
                          /\ tel.call[t].addr = w.addr
                    /\ w.state = "returned" =>
                          IF w.skipped THEN n = 0 /\ w.ret = "none"
                          ELSE /\ n >= 1 /\ Earlier(w, n - 1) /\ w.sleeps = n - 1
                               /\ w.ends[n] = "none" =>
                                     /\ w.ret = "result"
                                     /\ bulk.csv # <<>>
                                     /\ \E i \in 1..Len(bulk.csv) :
                                           bulk.csv[i].address = w.addr
                               /\ w.ends[n] \in Loading =>
                                     n = max_retries /\ w.ret = "none"
                               /\ w.ends[n] \notin Loading \cup {"none"} =>
                                     w.ret = "none")
    /\ [][scenario = "bulk" =>
          \A t \in Threads :
             /\ (bulk.worker[t].state = "idle" /\ bulk'.worker[t].state # "idle") =>
                   (bulk'.worker[t].skipped
                       <=> Lower(bulk'.worker[t].addr) \in bulk.existing)
             /\ bulk.worker[t].state = "returned" =>
                   bulk'.worker[t].state \in {"returned", "idle"}]_vars

\* one task has returned None after max_retries loading errors while the other
\* has returned the result of its second attempt
C29_Witness ==
    /\ scenario = "bulk"
    /\ \E t, u \in Threads :
          /\ bulk.worker[t].state = "returned" /\ bulk.worker[u].state = "returned"
          /\ Len(bulk.worker[t].ends) = max_retries /\ bulk.worker[t].ret = "none"
          /\ bulk.worker[t].sleeps = max_retries - 1
          /\ bulk.worker[u].ends = <<"WebDriverException", "none">>
          /\ bulk.worker[u].ret = "result"

\* C30: a check that ended in a loading error inside the page flow of
\* Telstra5GChecker.check leaves no row in results.csv and no entry in
\* existing_addresses; its task makes a further attempt, and when the last
\* attempt has ended that way too the task returns None, so that the address
\* is among the failed ones that run saves
C30_FailedStayRetryable ==
    scenario = "bulk" =>
        /\ \A i \in 1..Len(bulk.csv) :
              /\ bulk.csv[i].via # "error"
              /\ Lower(bulk.csv[i].address) \in bulk.existing
        /\ bulk.done =>
              \A a \in bulk.checked :
                 \/ \E i \in 1..Len(bulk.csv) :
                       bulk.csv[i].address = a /\ bulk.csv[i].via # "error"
                 \/ \E i \in 1..Len(bulk.saved) : bulk.saved[i] = a

\* C31: in one run no two rows appended to results.csv carry the same address
\* compared case-insensitively, and no appended row carries an address that
\* results.csv held when the run began
C31_NoDuplicateResults ==
    scenario = "bulk" =>
        \A i \in 1..Len(bulk.csv) :
           /\ Lower(bulk.csv[i].address) \notin bulk.loaded
           /\ \A j \in 1..Len(bulk.csv) :
                 i # j => Lower(bulk.csv[i].address) # Lower(bulk.csv[j].address)

\* C32: whenever results.csv exists its first line is the header, every other
\* line is a data row, and it holds one data row per result saved in the run
\* beside those it held at the start
C32_SingleHeader ==
    scenario = "bulk" =>
        /\ bulk.text # <<>> =>
              /\ bulk.text[1] = "header"
              /\ \A i \in 2..Len(bulk.text) : bulk.text[i] = "row"
        /\ Cardinality({i \in 1..Len(bulk.text) : bulk.text[i] = "row"})
              = Cardinality(bulk.loaded) + Len(bulk.csv)

cloud_max_retries == 2

\* the pool of max_workers = 1 threads has handed one address to thread 1
InitCloud ==
    /\ scenario = "cloud"
    /\ kind = "results"
    /\ index = NewIndex(0)
    /\ held = {}
    /\ pc = [t \in Threads |-> "idle"]
    /\ loc = [t \in Threads |-> NoLocals]
    /\ queries = 0
    /\ reads = 0
    /\ returned = 0
    /\ overlapped = FALSE
    /\ accepted = FALSE
    /\ last = "none"
    /\ prov = [a \in Attributes |-> 0]
    /\ heap = NewHeap
    /\ app = <<>>
    /\ tel = [now |-> 0, cache |-> {}, puts |-> {}, drivers |-> <<>>, calls |-> 0,
              call |-> [t \in Threads |-> NoCall]]
    /\ \E a1 \in {<<"A">>, <<" ", "a">>, <<"B">>} :
          LET a2 == <<>>
              Task(a) == [state |-> IF a = <<>> THEN "idle" ELSE "try", addr |-> a,
                          attempt |-> 0, sleeps |-> 0, ends |-> <<>>, rets |-> <<>>,
                          ret |-> <<>>]
          IN  bulk = [worker |-> [t \in Threads |-> IF t = 1 THEN Task(a1) ELSE Task(a2)]]

\* one turn of the loop over the attempts, up to the call of checker.check
CloudAttempt(t) ==
    /\ scenario = "cloud"
    /\ bulk.worker[t].state = "try"
    /\ bulk' = [bulk EXCEPT !.worker[t].state = "calling"]
    /\ tel' = [tel EXCEPT !.call[t] = [NoCall EXCEPT !.addr = bulk.worker[t].addr,
                                                     !.pc = "get"]]
    /\ UNCHANGED <<index, callers, app>>

\* the call of checker.check has ended, by an exception or by returning the
\* tuple (addr, available, status).  The tuple is unpacked into the two names
\* available, status, which raises ValueError unless it has two elements.
\* Any exception leads to a delay and the next attempt, or after the last
\* attempt to the return of (address, False, "error: ...")
CloudAttemptDone(t) ==
    LET w == bulk.worker[t]
        c == tel.call[t]
        value == <<c.addr, c.res.available, c.res.status>>
        e == IF c.exc # "none" THEN c.exc
             ELSE IF Len(value) # 2 THEN "ValueError"
             ELSE "none"
    IN  /\ scenario = "cloud"
        /\ w.state = "calling" /\ c.pc = "ret"
        /\ tel' = [tel EXCEPT !.call[t] = NoCall]
        /\ bulk' = [bulk EXCEPT
                       !.worker[t].ends = Append(@, c.exc),
                       !.worker[t].rets = Append(@, c.res),
                       !.worker[t].attempt = IF e # "none" /\ @ < cloud_max_retries
                                             THEN @ + 1 ELSE @,
                       !.worker[t].sleeps = IF e # "none" /\ w.attempt < cloud_max_retries
                                            THEN @ + 1 ELSE @,
                       !.worker[t].state = IF e # "none" /\ w.attempt < cloud_max_retries
                                           THEN "try" ELSE "returned",
                       !.worker[t].ret = IF e = "none" THEN <<w.addr, value[1], value[2]>>
                                         ELSE IF w.attempt < cloud_max_retries THEN <<>>
                                         ELSE <<w.addr, FALSE, "error", e>>]
        /\ UNCHANGED <<index, callers, app>>

NextCloud ==
    \E t \in Threads :
        \/ CloudAttempt(t)
        \/ Lookup(t)
        \/ OpenDriver(t)
        \/ PageFlow(t)
        \/ Quit(t)
        \/ CloudAttemptDone(t)

\* the tasks of one batch of the cloud bulk checker
SpecCloud == InitCloud /\ [][NextCloud]_vars

\* C34: the cloud task makes at most max_retries + 1 attempts; when an
\* attempt's check completes without raising the task makes no further
\* attempt and returns the address with that check's outcome; it returns the
\* error tuple only when the check raised in all max_retries + 1 attempts
C34_CloudRetry ==
    scenario = "cloud" =>
        \A t \in Threads :
           LET w == bulk.worker[t]
               n == Len(w.ends)
           IN  /\ n <= cloud_max_retries + 1
               /\ \A i \in 1..n : w.ends[i] = "none" =>
                     /\ i = n
                     /\ w.state = "returned"
                     /\ w.ret = <<w.addr, w.rets[i].available, w.rets[i].status>>
               /\ (w.state = "returned" /\ Len(w.ret) = 4) =>
                     /\ n = cloud_max_retries + 1
                     /\ \A i \in 1..n : w.ends[i] # "none"

(***************************************************************************)
(* src/retry_failed_from_csv.py: the choice of the row kept for an address *)
(* that has several rows in results.csv.                                   *)
(***************************************************************************)
\* the most rows of one address
MaxGroup == 3

\* list.sort(key = ...) with the keys given beside the rows: ascending by
\* key, rows of equal keys keeping their order
StableSort(rows, keys) ==
    LET n == Len(rows)
        pos(i) == 1 + Cardinality({j \in 1..n : keys[j] < keys[i]
                                                   \/ (keys[j] = keys[i] /\ j < i)})
    IN  [p \in 1..n |-> rows[CHOOSE i \in 1..n : pos(i) = p]]

\* RetryFailedAddresses._select_best_result(rows): the eligible rows if there
\* are any; then a sort by checked_at, newest first; then a sort by latency,
\* which is given up when a latency is no number; the first row is returned.
\* A row gives checked_at as a number that orders as its text does and
\* latency_sec as the outcome of float()
select_best_result(rows) ==
    LET successful == SelectSeq(rows, LAMBDA r : Lower(r.eligible) = <<"t", "r", "u", "e">>)
        r1 == IF successful # <<>> THEN successful ELSE rows
        r2 == IF Len(r1) > 1
              THEN StableSort(r1, [i \in 1..Len(r1) |-> 0 - r1[i].checked_at])
              ELSE r1
        r3 == IF Len(r2) > 1 /\ \A i \in 1..Len(r2) : r2[i].latency.ok
              THEN StableSort(r2, [i \in 1..Len(r2) |-> r2[i].latency.v])
              ELSE r2
    IN  r3[1]

\* _remove_duplicates has grouped the rows of results.csv by address and has
\* come to an address with several rows
InitSelect ==
    /\ scenario = "select"
    /\ kind = "results"
    /\ index = NewIndex(0)
    /\ held = {}
    /\ pc = [t \in Threads |-> "idle"]
    /\ loc = [t \in Threads |-> NoLocals]
    /\ queries = 0
    /\ reads = 0
    /\ returned = 0
    /\ overlapped = FALSE
    /\ accepted = FALSE
    /\ last = "none"
    /\ prov = [a \in Attributes |-> 0]
    /\ heap = NewHeap
    /\ app = <<>>
    /\ tel = <<>>
    /\ \E n \in 2..MaxGroup :
       \E rows \in [1..n -> [eligible : {<<"T", "r", "u", "e">>, <<"F", "a", "l", "s", "e">>},
                             checked_at : {1, 2},
                             latency : {[ok |-> TRUE, v |-> 1], [ok |-> TRUE, v |-> 2],
                                        [ok |-> FALSE, v |-> 0]}]] :
          bulk = [rows |-> rows, called |-> FALSE, best |-> <<>>]

\* best_row = self._select_best_result(rows)
SelectBest ==
    /\ scenario = "select"
    /\ ~bulk.called
    /\ bulk' = [bulk EXCEPT !.called = TRUE, !.best = select_best_result(bulk.rows)]
    /\ UNCHANGED <<index, callers, app, tel>>

\* the choice among the rows of one address
SpecSelect == InitSelect /\ [][SelectBest]_vars

\* C35: the row chosen is one of the rows given; it is eligible when one of
\* them is; among the candidates (the eligible rows if there are any, else
\* all rows) none has a later checked_at, and when all latencies are numbers
\* no candidate of the same checked_at has a shorter latency
C35_SelectBestPriority ==
    (scenario = "select" /\ bulk.called) =>
        LET rows == bulk.rows
            best == bulk.best
            IsEligible(r) == Lower(r.eligible) = <<"t", "r", "u", "e">>
            any == \E i \in 1..Len(rows) : IsEligible(rows[i])
            cand == {rows[i] : i \in {j \in 1..Len(rows) : any => IsEligible(rows[j])}}
        IN  /\ \E i \in 1..Len(rows) : rows[i] = best
            /\ best \in cand
            /\ \A r \in cand : r.checked_at <= best.checked_at
            /\ (\A r \in cand : r.latency.ok) =>
                  \A r \in cand : r.checked_at = best.checked_at =>
                                     best.latency.v <= r.latency.v

(***************************************************************************)
(* src/app.py: the registry of open connections and thread pools kept by   *)
(* the WebSocket handlers, which are coroutines of one event loop and give *)
(* way to one another at their awaits only.                                *)
(***************************************************************************)
\* the most connections accepted in a behaviour
MaxConnections == 3

\* the server is up, no connection is open
InitWs ==
    /\ scenario = "ws"
    /\ kind = "results"
    /\ index = NewIndex(0)
    /\ held = {}
    /\ pc = [t \in Threads |-> "idle"]
    /\ loc = [t \in Threads |-> NoLocals]
    /\ queries = 0
    /\ reads = 0
    /\ returned = 0
    /\ overlapped = FALSE
    /\ accepted = FALSE
    /\ last = "none"
    /\ prov = [a \in Attributes |-> 0]
    /\ heap = NewHeap
    /\ tel = <<>>
    /\ bulk = <<>>
    /\ app = [sockets |-> {}, executors |-> {}, connections |-> 0, exits |-> {},
              handler |-> [t \in Threads |-> [pc |-> "idle", h |-> "none"]]]

\* a connection reaches handler h as coroutine t: await websocket.accept(),
\* then _active_websockets.add(websocket); when accept raises the handler
\* ends there
Connect(t, h) ==
    /\ scenario = "ws"
    /\ app.handler[t].pc = "idle"
    /\ app.connections < MaxConnections
    /\ \/ app' = [app EXCEPT !.connections = @ + 1,
                             !.sockets = @ \cup {t},
                             !.handler[t] = [pc |-> "accepted", h |-> h]]
       \/ app' = [app EXCEPT !.connections = @ + 1,
                             !.exits = @ \cup {"accept raised"}]
    /\ UNCHANGED <<index, callers, tel, bulk>>

\* the body of the handler up to its thread pool: the request is received
\* and read, the addresses are found.  websocket_live and websocket_map then
\* make a pool and add it to _active_executors, unless an error message was
\* sent and the handler returned, or an exception was raised;
\* websocket_fromdata and websocket_map_data send their answers and reach the
\* end of the body, return after an error message, or raise
Receive(t) ==
    LET k == app.handler[t]
        pooled == k.h \in {"ws", "ws_map"}
    IN  /\ scenario = "ws"
        /\ k.pc = "accepted"
        /\ \/ /\ pooled
              /\ app' = [app EXCEPT !.executors = @ \cup {t},
                                    !.handler[t].pc = "pool"]
           \/ /\ ~pooled
              /\ app' = [app EXCEPT !.exits = @ \cup {"end"},
                                    !.handler[t].pc = "finally"]
           \/ \E e \in {"return", "exception"} :
                 app' = [app EXCEPT !.exits = @ \cup {e},
                                    !.handler[t].pc = "finally"]
        /\ UNCHANGED <<index, callers, tel, bulk>>

\* a faulty variant of RunPool: the pool is removed only when the block ends
\* without an exception
RunPoolKeeps(t) ==
    /\ scenario = "ws"
    /\ app.handler[t].pc = "pool"
    /\ \E e \in {"end", "exception"} :
          app' = [app EXCEPT !.executors = IF e = "end" THEN @ \ {t} ELSE @,
                             !.exits = @ \cup {"pool " \o e},
                             !.handler[t].pc = "finally"]
    /\ UNCHANGED <<index, callers, tel, bulk>>

\* the block "with executor": the checks run in the pool and their results
\* are sent; whether it ends or raises, its finally clause discards the pool
\* from _active_executors
RunPool(t) ==
    /\ scenario = "ws"
    /\ app.handler[t].pc = "pool"
    /\ \E e \in {"end", "exception"} :
          app' = [app EXCEPT !.executors = @ \ {t},
                             !.exits = @ \cup {"pool " \o e},
                             !.handler[t].pc = "finally"]
    /\ UNCHANGED <<index, callers, tel, bulk>>

\* the finally clause of the handler: _active_websockets.discard(websocket),
\* up to await websocket.close()
Unregister(t) ==
    /\ scenario = "ws"
    /\ app.handler[t].pc = "finally"
    /\ app' = [app EXCEPT !.sockets = @ \ {t}, !.handler[t].pc = "closing"]
    /\ UNCHANGED <<index, callers, tel, bulk>>

\* websocket.close() has returned or raised: the handler ends
CloseSocket(t) ==
    /\ scenario = "ws"
    /\ app.handler[t].pc = "closing"
    /\ app' = [app EXCEPT !.handler[t] = [pc |-> "idle", h |-> "none"]]
    /\ UNCHANGED <<index, callers, tel, bulk>>

NextWs ==
    \E t \in Threads :
        \/ \E h \in {"ws", "ws_fromdata", "ws_map", "ws_map_data"} : Connect(t, h)
        \/ Receive(t)
        \/ RunPool(t)
        \/ Unregister(t)
        \/ CloseSocket(t)

\* the WebSocket handlers of the application
SpecWs == InitWs /\ [][NextWs]_vars

\* C36: a handler's socket is in _active_websockets from its accept up to the
\* finally clause of the handler, which removes it on every path; a pool is in
\* _active_executors exactly while its handler is inside the block that uses
\* it; and when no handler runs both sets are empty
C36_RegistryClean ==
    scenario = "ws" =>
        /\ \A t \in Threads :
              LET k == app.handler[t]
              IN  /\ k.pc \in {"accepted", "pool", "finally"} => t \in app.sockets
                  /\ k.pc \in {"closing", "idle"} => t \notin app.sockets
                  /\ t \in app.executors <=> k.pc = "pool"
                  /\ k.pc = "pool" => k.h \in {"ws", "ws_map"}
        /\ (\A t \in Threads : app.handler[t].pc = "idle") =>
              app.sockets = {} /\ app.executors = {}

\* handlers have ended by every path and none is running
C36_Witness ==
    /\ scenario = "ws"
    /\ \A t \in Threads : app.handler[t].pc = "idle"
    /\ {"return", "exception", "pool exception"} \subseteq app.exits

(***************************************************************************)
(* src/geo.py: geocode_address and its requests to the geocoding service.  *)
(***************************************************************************)
\* _try_query(params), given what the service does with the first request
\* and with a second one: "raise" is a request that raises (no connection,
\* timeout), a number is the HTTP status of a response, and a response of
\* status 200 carries the list "empty" or "data".  A first response of status
\* 429, 502, 503 or 504 is followed by a second request; raise_for_status
\* raises on a final status of 400 or more
try_query(first, second) ==
    LET again == first.status \in {429, 502, 503, 504}
        resp == IF again THEN second ELSE first
    IN  [requests |-> IF again THEN 2 ELSE 1,
         out |-> IF first.status = 0 \/ resp.status = 0 \/ resp.status >= 400
                 THEN "raised"
                 ELSE resp.body]

\* the candidate queries of geocode_address for the stripped address q, in
\* the order they are tried: the five fallbacks with the bias to Australia,
\* then q without it
fallbacks(q) ==
    LET Text(suffix) == [q |-> q \o suffix, countrycodes |-> "au"]
    IN  <<Text(<<>>),
          Text(<<",", " ", "V", "I", "C">>),
          Text(<<",", " ", "M", "e", "l", "b", "o", "u", "r", "n", "e", ",", " ", "V", "I", "C">>),
          Text(<<",", " ", "V", "i", "c", "t", "o", "r", "i", "a", ",", " ",
                 "A", "u", "s", "t", "r", "a", "l", "i", "a">>),
          Text(<<",", " ", "A", "u", "s", "t", "r", "a", "l", "i", "a">>),
          [q |-> q, countrycodes |-> "None"]>>

\* geocode_address has not been called
InitGeo ==
    /\ scenario = "geo"
    /\ kind = "results"
    /\ index = NewIndex(0)
    /\ held = {}
    /\ pc = [t \in Threads |-> "idle"]
    /\ loc = [t \in Threads |-> NoLocals]
    /\ queries = 0
    /\ reads = 0
    /\ returned = 0
    /\ overlapped = FALSE
    /\ accepted = FALSE
    /\ last = "none"
    /\ prov = [a \in Attributes |-> 0]
    /\ heap = NewHeap
    /\ tel = <<>>
    /\ bulk = <<>>
    /\ app = [pc |-> "idle", address |-> None, q |-> <<>>, i |-> 0, log |-> <<>>,
              ret |-> <<>>, exc |-> "none"]

\* geocode_address(address) up to the loop: None counts as the empty text,
\* the address is stripped, and an empty one raises ValueError
Geocode(address) ==
    LET q == OrEmptyStrip(address)
    IN  /\ scenario = "geo"
        /\ app.pc = "idle" /\ app.i = 0
        /\ app' = [app EXCEPT !.address = address, !.q = q,
                              !.i = 1,
                              !.pc = IF q = <<>> THEN "raised" ELSE "loop",
                              !.exc = IF q = <<>> THEN "ValueError" ELSE "none"]
        /\ UNCHANGED <<index, callers, tel, bulk>>

\* a faulty variant of TryCandidate: a candidate that gives data does not end
\* the search unless it is the last one
TryCandidateGoesOn(first, second) ==
    LET c == fallbacks(app.q)[app.i]
        r == try_query(first, second)
        final == app.i = Len(fallbacks(app.q))
    IN  /\ scenario = "geo"
        /\ app.pc = "loop"
        /\ app' = [app EXCEPT
                      !.log = Append(@, [query |-> c, requests |-> r.requests, out |-> r.out]),
                      !.i = IF final THEN @ ELSE @ + 1,
                      !.ret = IF r.out = "data" THEN <<"lat", "lon", c>> ELSE @,
                      !.pc = IF final THEN (IF r.out = "data" THEN "returned" ELSE "raised")
                             ELSE "loop",
                      !.exc = IF final /\ r.out # "data" THEN "ValueError" ELSE @]
        /\ UNCHANGED <<index, callers, tel, bulk>>

\* one candidate: _try_query is called with it; a list that is not empty
\* ends the call with the coordinates of its first entry; an empty list or an
\* exception leads to the next candidate, and after the last one to
\* ValueError
TryCandidate(first, second) ==
    LET c == fallbacks(app.q)[app.i]
        r == try_query(first, second)
        final == app.i = Len(fallbacks(app.q))
    IN  /\ scenario = "geo"
        /\ app.pc = "loop"
        /\ app' = [app EXCEPT
                      !.log = Append(@, [query |-> c, requests |-> r.requests, out |-> r.out]),
                      !.i = IF r.out = "data" \/ final THEN @ ELSE @ + 1,
                      !.ret = IF r.out = "data" THEN <<"lat", "lon", c>> ELSE @,
                      !.pc = IF r.out = "data" THEN "returned"
                             ELSE IF final THEN "raised"
                             ELSE "loop",
                      !.exc = IF final /\ r.out # "data" THEN "ValueError" ELSE @]
        /\ UNCHANGED <<index, callers, tel, bulk>>

NextGeo ==
    \/ \E address \in {None, <<>>, <<" ">>, <<"A">>, <<" ", "B", " ">>} : Geocode(address)
    \/ \E first, second \in {[status |-> 0, body |-> "none"],
                             [status |-> 429, body |-> "none"],
                             [status |-> 500, body |-> "none"],
                             [status |-> 200, body |-> "empty"],
                             [status |-> 200, body |-> "data"]} :
          TryCandidate(first, second)

\* one call of geocode_address
SpecGeo == InitGeo /\ [][NextGeo]_vars

\* C37: geocode_address raises ValueError, with no request made, for an
\* address that is None, empty or blank; otherwise its queries are the
\* stripped address, the address followed by ", VIC", by ", Melbourne, VIC",
\* by ", Victoria, Australia" and by ", Australia", each biased to Australia,
\* then the address without the bias, in that order; each takes one or two
\* requests; only the last query made can have given data, and then the call
\* returns the coordinates that query gave; and the call raises, always
\* ValueError, only when all six queries have raised or given nothing
C37_GeocodeOrder ==
    scenario = "geo" =>
        LET n == Len(app.log)
            Suffix == <<<<>>,
                        <<",", " ", "V", "I", "C">>,
                        <<",", " ", "M", "e", "l", "b", "o", "u", "r", "n", "e", ",", " ",
                          "V", "I", "C">>,
                        <<",", " ", "V", "i", "c", "t", "o", "r", "i", "a", ",", " ",
                          "A", "u", "s", "t", "r", "a", "l", "i", "a">>,
                        <<",", " ", "A", "u", "s", "t", "r", "a", "l", "i", "a">>,
                        <<>>>>
        IN  /\ n <= 6
            /\ \A j \in 1..n :
                  /\ app.log[j].requests \in {1, 2}
                  /\ app.log[j].query.q = app.q \o Suffix[j]
                  /\ app.log[j].query.countrycodes = IF j = 6 THEN "None" ELSE "au"
                  /\ j < n => app.log[j].out \in {"raised", "empty"}
                  /\ app.log[j].out = "data" =>
                        app.pc = "returned" /\ app.ret = <<"lat", "lon", app.log[j].query>>
            /\ app.pc = "loop" => n = app.i - 1 /\ app.q # <<>>
            /\ app.pc = "returned" => n >= 1 /\ app.log[n].out = "data"
            /\ app.pc = "raised" =>
                  /\ app.exc = "ValueError"
                  /\ IF OrEmptyStrip(app.address) = <<>> THEN n = 0
                     ELSE n = 6 /\ app.log[6].out \in {"raised", "empty"}
            /\ app.pc # "idle" => app.q = OrEmptyStrip(app.address)

\* the call has returned the coordinates of its fourth query, after a first
\* query that took two requests and raised and two that gave nothing
C37_Witness ==
    /\ scenario = "geo"
    /\ app.pc = "returned"
    /\ Len(app.log) = 4
    /\ app.log[1].requests = 2 /\ app.log[1].out = "raised"
    /\ app.log[2].out = "empty" /\ app.log[3].out = "empty"
    /\ app.ret[3].q = <<"B", ",", " ", "V", "i", "c", "t", "o", "r", "i", "a", ",", " ",
                        "A", "u", "s", "t", "r", "a", "l", "i", "a">>

(***************************************************************************)
(* src/geo.py: fetch_addresses_in_bbox, given the nodes and the ways that  *)
(* the Overpass query returned.                                            *)
(***************************************************************************)
\* the largest limit, and the most nodes and the most ways of a result
MaxLimit == 3
MaxElements == 2

\* fetch_addresses_in_bbox(bbox, limit) on the result of the query: a row for
\* every node, then for every way that has a centre; then the loop that keeps
\* a row whose lower-cased address has not been seen and stops once the rows
\* kept are limit or more.  An element gives the address that _format_addr
\* makes of its tags
fetch_addresses_in_bbox(nodes, ways, limit) ==
    LET rows == nodes \o SelectSeq(ways, LAMBDA w : w.center)
        RECURSIVE Loop(_, _, _)
        Loop(rest, seen, out) ==
            IF rest = <<>> THEN out
            ELSE LET r == Head(rest)
                     k == Lower(r.addr)
                 IN  IF k \in seen THEN Loop(Tail(rest), seen, out)
                     ELSE IF Len(out) + 1 >= limit THEN Append(out, r)
                     ELSE Loop(Tail(rest), seen \cup {k}, Append(out, r))
    IN  Loop(rows, {}, <<>>)

\* the Overpass query of fetch_addresses_in_bbox has returned its result
InitFetch ==
    /\ scenario = "fetch"
    /\ kind = "results"
    /\ index = NewIndex(0)
    /\ held = {}
    /\ pc = [t \in Threads |-> "idle"]
    /\ loc = [t \in Threads |-> NoLocals]
    /\ queries = 0
    /\ reads = 0
    /\ returned = 0
    /\ overlapped = FALSE
    /\ accepted = FALSE
    /\ last = "none"
    /\ prov = [a \in Attributes |-> 0]
    /\ heap = NewHeap
    /\ app = <<>>
    /\ tel = <<>>
    /\ \E limit \in 0..MaxLimit :
       \E n, m \in 0..MaxElements :
       \E nodes \in [1..n -> [addr : {<<"A">>, <<"a">>, <<"B">>}, center : {TRUE}, id : {"n"}]] :
       \E ways \in [1..m -> {[addr |-> <<"a">>, center |-> TRUE, id |-> "w"],
                             [addr |-> <<"B">>, center |-> FALSE, id |-> "w"],
                             [addr |-> <<"C">>, center |-> TRUE, id |-> "w"]}] :
          bulk = [nodes |-> nodes, ways |-> ways, limit |-> limit, called |-> FALSE,
                  out |-> <<>>]

\* the rest of fetch_addresses_in_bbox, up to its return
FetchAddresses ==
    /\ scenario = "fetch"
    /\ ~bulk.called
    /\ bulk' = [bulk EXCEPT
                   !.called = TRUE,
                   !.out = fetch_addresses_in_bbox(bulk.nodes, bulk.ways, bulk.limit)]
    /\ UNCHANGED <<index, callers, app, tel>>

\* one call of fetch_addresses_in_bbox
SpecFetch == InitFetch /\ [][FetchAddresses]_vars

\* C38: fetch_addresses_in_bbox returns at most limit rows; no two of them
\* have the same address when case is ignored; and they are, in order, the
\* first rows (nodes before ways with a centre) of the addresses not met
\* before, as many as the limit allows
C38_FetchWithinLimit ==
    (scenario = "fetch" /\ bulk.called) =>
        LET rows == bulk.nodes \o SelectSeq(bulk.ways, LAMBDA w : w.center)
            First(i) == \A j \in 1..(i - 1) : Lower(rows[j].addr) # Lower(rows[i].addr)
            firsts == {i \in 1..Len(rows) : First(i)}
            out == bulk.out
        IN  /\ Len(out) <= bulk.limit
            /\ \A i, j \in 1..Len(out) : i # j => Lower(out[i].addr) # Lower(out[j].addr)
            /\ Len(out) = Min(bulk.limit, Cardinality(firsts))
            /\ \A p \in 1..Len(out) :
                  \E i \in firsts :
                     /\ out[p] = rows[i]
                     /\ Cardinality({j \in firsts : j < i}) = p - 1

====
